---- MODULE Spec2Model ----
(***************************************************************************)
(* OTP authentication / session core of the project-management backend.   *)
(*                                                                         *)
(* The model follows the controllers (authController, userController),     *)
(* the SQL text of authQueries, the otpService helpers and the table       *)
(* definitions of the schema script.  A request handler is an async        *)
(* function: it runs atomically between two awaits, so every await is one  *)
(* step of a worker and handlers of different requests interleave at       *)
(* those points.  Time is counted in minutes.                              *)
(***************************************************************************)
EXTENDS Integers, Sequences, FiniteSets, TLC

(***************************************************************************)
(* Bounds of the model                                                     *)
(***************************************************************************)
MaxOtps == 1
MaxSessions == 1
MaxTicks == 1
MaxSessionTicks == 1
MaxIssues == 2
MaxLogins == 2
MaxRefreshes == 2
MaxFailedAttempts == 11
MaxPools == 2
MaxSignals == 2

(***************************************************************************)
(* Program constants                                                       *)
(***************************************************************************)
DEFAULT_LENGTH == 6
\* The exit code of a process on which process.exit has not been called.
RUNNING == -1
OTP_EXPIRY_MINUTES == 10
MAX_OTP_ATTEMPTS == 3
ACCESS_TOKEN_TTL == 15
REFRESH_TOKEN_TTL == 10080
SESSION_TTL == 10080

NULL == "null"

\* NULL in the column last_login (a number, so that it compares with the
\* timestamps the column holds).
NULL_TIMESTAMP == -1

\* authRateLimit: windowMs in minutes, and the default of max.
RATE_LIMIT_WINDOW == 15
RATE_LIMIT_AUTH_MAX == 10

\* The addresses requests come from.
Ips == {"10.0.0.1", "10.0.0.2"}

\* Requests in flight at the same time: each worker handles one request.
Workers == {"w1", "w2"}

\* Steps by which the clock advances: one OTP lifetime, or one session lifetime.
TimeSteps == {OTP_EXPIRY_MINUTES, SESSION_TTL}

(***************************************************************************)
(* Schema: the columns of the tables, and the defaults of new rows         *)
(***************************************************************************)
OtpColumns ==
    {"id", "email", "otp_code", "otp_type", "expires_at", "is_verified",
     "attempts", "max_attempts", "created_at"}

SessionColumns ==
    {"id", "user_id", "refresh_token", "device_info", "ip_address",
     "expires_at", "is_active", "created_at", "last_used"}

UserColumns ==
    {"id", "email", "email_verified", "profile_picture_url", "role_id",
     "is_active", "last_login", "created_at", "updated_at", "employee_id",
     "created_by", "deleted_at", "deleted_by"}

\* The keys of the authQueries object.
AuthQueryNames ==
    {"createUser", "getUserByEmail", "getUserById", "updateLastLogin",
     "createOTP", "getValidOTP", "verifyOTP", "cleanExpiredOTPs",
     "incrementOTPAttempts", "createSession", "getSessionByToken",
     "updateSessionLastUsed", "deactivateSession"}

\* The columns each statement assigns or inserts.
QueryColumns(name) ==
    CASE name = "createOTP" ->
            {"email", "otp_code", "otp_type", "expires_at", "created_at"}
      [] name = "verifyOTP" -> {"is_verified"}
      [] name = "incrementOTPAttempts" -> {"attempts", "updated_at"}
      [] name = "createSession" ->
            {"user_id", "refresh_token", "device_info", "ip_address",
             "expires_at", "created_at"}
      [] name = "updateSessionLastUsed" -> {"last_used"}
      [] name = "deactivateSession" -> {"is_active"}
      [] name = "updateLastLogin" -> {"last_login", "updated_at"}
      [] OTHER -> {}

QueryTable(name) ==
    CASE name \in {"createOTP", "verifyOTP", "incrementOTPAttempts"} -> OtpColumns
      [] name \in {"createSession", "updateSessionLastUsed", "deactivateSession"} ->
            SessionColumns
      [] OTHER -> UserColumns

\* query(text, params): pool.query rejects when the text is undefined (the
\* key is not a property of authQueries) or when the statement names a
\* column its table does not have; the rejection is rethrown to the caller.
QueryThrows(name) ==
    \/ name \notin AuthQueryNames
    \/ ~(QueryColumns(name) \subseteq QueryTable(name))

(***************************************************************************)
(* Inputs                                                                  *)
(***************************************************************************)
\* users table: two active accounts and one deactivated account.
UserIds == {"u1", "u2", "u3"}

InitUsers ==
    [u \in UserIds |->
        CASE u = "u1" -> [email |-> "a@x.com", is_active |-> TRUE,
                          role_name |-> "admin", last_login |-> NULL_TIMESTAMP,
                          deleted_at |-> NULL]
          [] u = "u2" -> [email |-> "b@x.com", is_active |-> TRUE,
                          role_name |-> "user", last_login |-> NULL_TIMESTAMP,
                          deleted_at |-> NULL]
          [] OTHER    -> [email |-> "c@x.com", is_active |-> FALSE,
                          role_name |-> "user", last_login |-> NULL_TIMESTAMP,
                          deleted_at |-> NULL]]

\* Request bodies: e-mail addresses (one in upper case, one of a deactivated
\* account, one without an account, one malformed, one missing).
EmailInputs == {"a@x.com", "A@X.COM", "c@x.com", "n@x.com", "not-an-email", ""}

\* The addresses of the two active accounts.
ActiveEmails == {"a@x.com", "B@X.COM"}

\* String.prototype.toLowerCase on the inputs above.
ToLowerCase(e) ==
    CASE e = "A@X.COM" -> "a@x.com"
      [] e = "B@X.COM" -> "b@x.com"
      [] OTHER -> e

\* /^[^\s@]+@[^\s@]+\.[^\s@]+$/ on the inputs above.
EmailRegexTest(e) == e \in {"a@x.com", "A@X.COM", "B@X.COM", "c@x.com", "n@x.com"}

\* crypto.randomBytes(length): the byte buffers the generator may draw.
RandomBuffers ==
    {[i \in 1..DEFAULT_LENGTH |-> 251], [i \in 1..DEFAULT_LENGTH |-> 2]}

\* Request bodies: the codes a client may submit (a wrong code and a code
\* of the wrong length besides the generated ones).
WrongCode == [i \in 1..6 |-> 0]
ShortCode == <<1, 2, 3>>
CodeInputs == {WrongCode, ShortCode, <<>>}

(***************************************************************************)
(* State                                                                   *)
(***************************************************************************)
VARIABLES
    now,              \* CURRENT_TIMESTAMP / Date.now(), in minutes
    ticks,            \* number of clock steps taken
    users,            \* table users: id -> row
    otps,             \* table otp_verifications: set of rows
    nextOtpId,        \* ids handed out to otp_verifications rows
    sessions,         \* table user_sessions: sequence of rows, id = index
    pc,               \* per worker: the await its handler is suspended at
    req,              \* per worker: request, handler locals and response
    res,              \* the response sent by the step just taken, if any
    emailTransporter, \* otpService module variable
    nodeEnv,          \* process.env.NODE_ENV
    failedRedeems,    \* history: per challenge id, the failed redemptions
                      \* answered for its e-mail while it was outstanding
    refreshes,        \* history: per session id, the refreshes answered
                      \* with a new access token
    auditLogs,        \* table audit_logs: set of rows
    hits,             \* store of authRateLimit: per IP, the requests counted
                      \* in the current window
    failedAttempts,   \* history: per IP, the requests of the current window
                      \* that were answered with a status of 400 or more
    otpLengthEnv,     \* parseInt(process.env.OTP_LENGTH); 0 when unset
    pool,             \* config/database.js: let pool (0: null, else the id
                      \* of a Pool object)
    pools,            \* the Pool objects created so far: id = index
    dbConnected,      \* api/index.js: let dbConnected
    proc,             \* the server process: the HTTP server, the close
                      \* callbacks and timers of gracefulShutdown, the exit
    ends              \* closeDatabase calls suspended at await pool.end()

\* The state of config/database.js, api/index.js and server.js.
dbVars == <<pool, pools, dbConnected, proc, ends>>

vars == <<now, ticks, users, otps, nextOtpId, sessions, pc, req, res,
          emailTransporter, nodeEnv, failedRedeems, refreshes, auditLogs,
          hits, failedAttempts, otpLengthEnv, dbVars>>

\* An absent token and an absent user row.
NoToken == [key |-> "none"]
NoUser == [id |-> NULL]

\* A request without a JSON body.
NoBody == [none |-> TRUE]

Blank ==
    [op |-> "none", ip |-> NULL, email |-> NULL, otp |-> <<>>, type |-> NULL,
     token |-> NoToken,
     user |-> NoUser, row |-> 0, status |-> 0, message |-> NULL, code |-> NULL,
     access |-> NoToken, refresh |-> NoToken, delivered |-> NULL,
     target |-> NULL, body |-> NoBody]

\* res.status(s).json({message, code}) followed by return: the response
\* carries the request and the locals of the handler that sent it.
Respond(w, r, s, m, c) ==
    /\ res' = [r EXCEPT !.status = s, !.message = m, !.code = c]
    /\ req' = [req EXCEPT ![w] = Blank]
    /\ pc' = [pc EXCEPT ![w] = "idle"]

\* An await that suspends the handler again.
Continue(w, r, label) ==
    /\ res' = Blank
    /\ req' = [req EXCEPT ![w] = r]
    /\ pc' = [pc EXCEPT ![w] = label]

CanStart(w) == pc[w] = "idle"

(***************************************************************************)
(* otpService                                                              *)
(***************************************************************************)
\* generateSecureOTP(length = 6): one decimal digit per random byte.
GenerateSecureOTP(buffer) == [i \in 1..Len(buffer) |-> buffer[i] % 10]

\* getOTPExpiration()
GetOTPExpiration == now + OTP_EXPIRY_MINUTES

MasterCode == [i \in 1..6 |-> 9]

\* isMasterOTP(otp)
IsMasterOTP(otp) == otp = MasterCode

\* isValidOTPFormat(otp)
\* const length = parseInt(process.env.OTP_LENGTH) || 6.
OTP_LENGTH == IF otpLengthEnv = 0 THEN 6 ELSE otpLengthEnv

IsValidOTPFormat(otp) ==
    \/ IsMasterOTP(otp)
    \/ /\ Len(otp) = OTP_LENGTH
       /\ \A i \in 1..Len(otp) : otp[i] \in 0..9

(***************************************************************************)
(* authQueries                                                             *)
(***************************************************************************)
\* getUserByEmail: WHERE u.email = $1 AND u.is_active = true
GetUserByEmail(email) ==
    {u \in DOMAIN users : users[u].email = email /\ users[u].is_active = TRUE}

\* getUserById without the condition u.is_active = true.
GetUserById_IgnoreActive(id) ==
    {u \in DOMAIN users : u = id}

\* getUserById: WHERE u.id = $1 AND u.is_active = true
GetUserById(id) ==
    {u \in DOMAIN users : u = id /\ users[u].is_active = TRUE}

\* The row the handler keeps of a user.
UserRow(u) ==
    [id |-> u, email |-> users[u].email, is_active |-> users[u].is_active,
     role_name |-> users[u].role_name, last_login |-> users[u].last_login]

\* cleanExpiredOTPs that also deletes the challenges whose attempts are used up.
CleanExpiredOTPs_DropsExhausted(tbl) ==
    {o \in tbl : ~(o.expires_at < now \/ o.is_verified = TRUE
                      \/ o.attempts >= o.max_attempts)}

\* cleanExpiredOTPs: DELETE ... WHERE expires_at < CURRENT_TIMESTAMP OR is_verified
CleanExpiredOTPs(tbl) ==
    {o \in tbl : ~(o.expires_at < now \/ o.is_verified = TRUE)}

\* createOTP: INSERT with the column defaults of the table.
CreateOTP(id, email, code, type, expiresAt) ==
    [id |-> id, email |-> email, otp_code |-> code, otp_type |-> type,
     expires_at |-> expiresAt, is_verified |-> FALSE, attempts |-> 0,
     max_attempts |-> MAX_OTP_ATTEMPTS, created_at |-> now]

(***************************************************************************)
(* sendOTP  (POST /auth/send-otp)                                          *)
(***************************************************************************)
SendOTPStart(w, emails) ==
    /\ CanStart(w)
    /\ \E email \in emails :
         IF email = "" \/ ~EmailRegexTest(email)
         THEN Respond(w, [Blank EXCEPT !.op = "sendOTP"],
                      400, "Please provide a valid email address", NULL)
         ELSE Continue(w, [Blank EXCEPT !.op = "sendOTP", !.email = ToLowerCase(email)],
                       "send_getUser")
    /\ UNCHANGED <<now, ticks, users, otps, nextOtpId, sessions,
                   emailTransporter, nodeEnv, failedRedeems, refreshes, auditLogs,
                   hits, failedAttempts, otpLengthEnv, dbVars>>

\* await query(getUserByEmail)
SendOTPGetUser(w) ==
    /\ pc[w] = "send_getUser"
    /\ LET found == GetUserByEmail(req[w].email) IN
       IF found = {}
       THEN Respond(w, req[w], 404,
                    "User not found. Only existing users can receive OTP.",
                    "USER_NOT_FOUND")
       ELSE \E u \in found :
              IF ~UserRow(u).is_active
              THEN Respond(w, req[w], 403,
                           "User account is deactivated", "USER_DEACTIVATED")
              ELSE Continue(w, [req[w] EXCEPT !.user = UserRow(u)], "send_clean")
    /\ UNCHANGED <<now, ticks, users, otps, nextOtpId, sessions,
                   emailTransporter, nodeEnv, failedRedeems, refreshes, auditLogs,
                   hits, failedAttempts, otpLengthEnv, dbVars>>

\* await query(cleanExpiredOTPs)
SendOTPClean(w) ==
    /\ pc[w] = "send_clean"
    /\ otps' = CleanExpiredOTPs(otps)
    /\ Continue(w, req[w], "send_create")
    /\ UNCHANGED <<now, ticks, users, nextOtpId, sessions,
                   emailTransporter, nodeEnv, failedRedeems, refreshes, auditLogs,
                   hits, failedAttempts, otpLengthEnv, dbVars>>

\* await query(cleanExpiredOTPs) when pool.query rejects (the connection
\* is lost, the statement times out): query() rethrows, nothing in the
\* handler catches it before the outer catch, which answers 500.
SendOTPCleanFails(w) ==
    /\ pc[w] = "send_clean"
    /\ Respond(w, req[w], 500, "Failed to send OTP. Please try again.", NULL)
    /\ UNCHANGED <<now, ticks, users, otps, nextOtpId, sessions,
                   emailTransporter, nodeEnv, failedRedeems, refreshes, auditLogs,
                   hits, failedAttempts, otpLengthEnv, dbVars>>

\* createOTP as an upsert that keeps one challenge per e-mail: the insert
\* replaces the challenges the e-mail already has.
SendOTPCreate_Supersedes(w, max) ==
    /\ pc[w] = "send_create"
    /\ nextOtpId <= max
    /\ \E buffer \in RandomBuffers :
         LET otpCode == GenerateSecureOTP(buffer) IN
         /\ otps' = {o \in otps : o.email # req[w].email} \cup
               {CreateOTP(nextOtpId, req[w].email, otpCode, "login", GetOTPExpiration)}
         /\ Continue(w, [req[w] EXCEPT !.otp = otpCode, !.row = nextOtpId], "send_mail")
    /\ nextOtpId' = nextOtpId + 1
    /\ UNCHANGED <<now, ticks, users, sessions, emailTransporter, nodeEnv,
                   failedRedeems, refreshes, auditLogs,
                   hits, failedAttempts, otpLengthEnv, dbVars>>

\* generateSecureOTP(); getOTPExpiration(); await query(createOTP)
SendOTPCreate(w, max) ==
    /\ pc[w] = "send_create"
    /\ nextOtpId <= max
    /\ \E buffer \in RandomBuffers :
         LET otpCode == GenerateSecureOTP(buffer) IN
         /\ otps' = otps \cup
               {CreateOTP(nextOtpId, req[w].email, otpCode, "login", GetOTPExpiration)}
         /\ Continue(w, [req[w] EXCEPT !.otp = otpCode, !.row = nextOtpId], "send_mail")
    /\ nextOtpId' = nextOtpId + 1
    /\ UNCHANGED <<now, ticks, users, sessions, emailTransporter, nodeEnv,
                   failedRedeems, refreshes, auditLogs,
                   hits, failedAttempts, otpLengthEnv, dbVars>>

\* sendOTPEmail with a catch that resolves in every environment.
SendOTPMail_NeverRethrows(w) ==
    /\ pc[w] = "send_mail"
    /\ \E verified \in BOOLEAN, delivered \in BOOLEAN :
         LET transporter ==
                 IF emailTransporter # NULL THEN emailTransporter
                 ELSE IF verified THEN "gmail" ELSE "fallback"
             sent == transporter = "fallback" \/ delivered
             r == [req[w] EXCEPT !.delivered = sent]
         IN
         /\ emailTransporter' = transporter
         /\ Respond(w, r, 200, "OTP sent", NULL)
    /\ UNCHANGED <<now, ticks, users, otps, nextOtpId, sessions, nodeEnv,
                   failedRedeems, refreshes, auditLogs,
                   hits, failedAttempts, otpLengthEnv, dbVars>>

\* sendOTP with the insert and the dispatch in one transaction: a failed
\* dispatch takes the stored challenge back.
SendOTPMail_RollsBack(w) ==
    /\ pc[w] = "send_mail"
    /\ \E verified \in BOOLEAN, delivered \in BOOLEAN :
         LET transporter ==
                 IF emailTransporter # NULL THEN emailTransporter
                 ELSE IF verified THEN "gmail" ELSE "fallback"
             sent == transporter = "fallback" \/ delivered
             r == [req[w] EXCEPT !.delivered = sent]
         IN
         /\ emailTransporter' = transporter
         /\ IF sent \/ nodeEnv = "development"
            THEN otps' = otps /\ Respond(w, r, 200, "OTP sent", NULL)
            ELSE /\ otps' = {o \in otps : o.id # req[w].row}
                 /\ Respond(w, r, 500, "Failed to send OTP. Please try again.", NULL)
    /\ UNCHANGED <<now, ticks, users, nextOtpId, sessions, nodeEnv,
                   failedRedeems, refreshes, auditLogs,
                   hits, failedAttempts, otpLengthEnv, dbVars>>

\* await sendOTPEmail(emailLower, otpCode, 'login'), then the 200 response.
\* initializeEmailService keeps the transporter it made; when verify() fails
\* it installs a fallback transporter whose sendMail always resolves.
\* sendMail of the real transporter may reject; the catch of sendOTPEmail
\* then resolves in development and rethrows otherwise.
SendOTPMail(w) ==
    /\ pc[w] = "send_mail"
    /\ \E verified \in BOOLEAN, delivered \in BOOLEAN :
         LET transporter ==
                 IF emailTransporter # NULL THEN emailTransporter
                 ELSE IF verified THEN "gmail" ELSE "fallback"
             sent == transporter = "fallback" \/ delivered
             r == [req[w] EXCEPT !.delivered = sent]
         IN
         /\ emailTransporter' = transporter
         /\ IF sent \/ nodeEnv = "development"
            THEN Respond(w, r, 200, "OTP sent", NULL)
            ELSE Respond(w, r, 500, "Failed to send OTP. Please try again.", NULL)
    /\ UNCHANGED <<now, ticks, users, otps, nextOtpId, sessions, nodeEnv,
                   failedRedeems, refreshes, auditLogs,
                   hits, failedAttempts, otpLengthEnv, dbVars>>

(***************************************************************************)
(* jsonwebtoken                                                            *)
(***************************************************************************)
\* jwt.sign that stamps the token with an expiry at the moment of signing.
JwtSign_ExpiresAtOnce(payload, secret, ttl) ==
    payload @@ [iat |-> now, exp |-> now, key |-> secret]

\* jwt.sign(payload, secret, {expiresIn}): the claims, iat, exp and the key
\* of the signature.
JwtSign(payload, secret, ttl) ==
    payload @@ [iat |-> now, exp |-> now + ttl, key |-> secret]

\* jwt.verify(token, secret): throws on a bad signature or a past exp.
JwtVerify(token, secret) ==
    IF token.key # secret THEN "invalid"
    ELSE IF now >= token.exp THEN "expired"
    ELSE "ok"

\* user.role_name || 'user'
RoleOrDefault(role_name) == IF role_name = NULL THEN "user" ELSE role_name

\* A well-formed refresh token that this server did not sign.
ForgedToken ==
    [userId |-> "u1", email |-> "a@x.com", iat |-> 0,
     exp |-> REFRESH_TOKEN_TTL, key |-> "FORGED"]

(***************************************************************************)
(* authQueries on otp_verifications and user_sessions                      *)
(***************************************************************************)
\* getValidOTP without the condition attempts < max_attempts.
ValidOTP_NoAttemptLimit(o, email, code, type) ==
    /\ o.email = email
    /\ o.otp_code = code
    /\ o.otp_type = type
    /\ o.expires_at > now
    /\ o.is_verified = FALSE

\* getValidOTP: the WHERE clause.
ValidOTP(o, email, code, type) ==
    /\ o.email = email
    /\ o.otp_code = code
    /\ o.otp_type = type
    /\ o.expires_at > now
    /\ o.is_verified = FALSE
    /\ o.attempts < o.max_attempts

\* getValidOTP: ORDER BY created_at DESC LIMIT 1 (any of the newest rows
\* when several were created at the same instant).
GetValidOTP(email, code, type) ==
    LET match == {o \in otps : ValidOTP(o, email, code, type)} IN
    {o \in match : \A p \in match : p.created_at <= o.created_at}

\* verifyOTP as an update that also resets the attempt counter.
MarkOTPVerified_ResetsAttempts(tbl, id) ==
    {IF o.id = id THEN [o EXCEPT !.is_verified = TRUE, !.attempts = 0] ELSE o :
        o \in tbl}

\* verifyOTP: UPDATE ... SET is_verified = true WHERE id = $1
MarkOTPVerified(tbl, id) ==
    {IF o.id = id THEN [o EXCEPT !.is_verified = TRUE] ELSE o : o \in tbl}

\* incrementOTPAttempts: UPDATE ... SET attempts = attempts + 1
\*   WHERE email = $1 AND otp_code = $2 AND otp_type = $3 AND is_verified = false
IncrementOTPAttempts(tbl, email, code, type) ==
    {IF o.email = email /\ o.otp_code = code /\ o.otp_type = type
          /\ o.is_verified = FALSE
     THEN [o EXCEPT !.attempts = o.attempts + 1] ELSE o : o \in tbl}

\* updateLastLogin without its WHERE clause.
UpdateLastLogin_AllRows(tbl, id) ==
    [u \in DOMAIN tbl |-> [tbl[u] EXCEPT !.last_login = now]]

\* updateLastLogin: UPDATE users SET last_login = CURRENT_TIMESTAMP WHERE id = $1
UpdateLastLogin(tbl, id) ==
    [u \in DOMAIN tbl |->
        IF u = id THEN [tbl[u] EXCEPT !.last_login = now] ELSE tbl[u]]

\* createSession as an insert of a row that is not active.
CreateSession_Inactive(userId, refreshToken, expiresAt) ==
    [user_id |-> userId, refresh_token |-> refreshToken,
     expires_at |-> expiresAt, is_active |-> FALSE, created_at |-> now,
     last_used |-> now]

\* createSession: INSERT with the column defaults of the table.
CreateSession(userId, refreshToken, expiresAt) ==
    [user_id |-> userId, refresh_token |-> refreshToken,
     expires_at |-> expiresAt, is_active |-> TRUE, created_at |-> now,
     last_used |-> now]

\* getSessionByToken without the condition s.expires_at > CURRENT_TIMESTAMP.
GetSessionByToken_IgnoreExpiry(token) ==
    {i \in DOMAIN sessions :
        /\ sessions[i].user_id \in DOMAIN users
        /\ sessions[i].refresh_token = token
        /\ sessions[i].is_active = TRUE}

\* getSessionByToken without the condition s.is_active = true.
GetSessionByToken_IgnoreActive(token) ==
    {i \in DOMAIN sessions :
        /\ sessions[i].user_id \in DOMAIN users
        /\ sessions[i].refresh_token = token
        /\ sessions[i].expires_at > now}

\* getSessionByToken: JOIN users, WHERE s.refresh_token = $1
\*   AND s.is_active = true AND s.expires_at > CURRENT_TIMESTAMP
GetSessionByToken(token) ==
    {i \in DOMAIN sessions :
        /\ sessions[i].user_id \in DOMAIN users
        /\ sessions[i].refresh_token = token
        /\ sessions[i].is_active = TRUE
        /\ sessions[i].expires_at > now}

\* updateSessionLastUsed for single-use refresh tokens: the touched session
\* is closed.
UpdateSessionLastUsed_Revokes(tbl, id) ==
    [i \in DOMAIN tbl |->
        IF i = id THEN [tbl[i] EXCEPT !.last_used = now, !.is_active = FALSE]
        ELSE tbl[i]]

\* updateSessionLastUsed: UPDATE ... SET last_used = CURRENT_TIMESTAMP WHERE id = $1
UpdateSessionLastUsed(tbl, id) ==
    [i \in DOMAIN tbl |->
        IF i = id THEN [tbl[i] EXCEPT !.last_used = now] ELSE tbl[i]]

\* deactivateSession that closes every session of the user the token names.
DeactivateSession_AllOfUser(tbl, token) ==
    [i \in DOMAIN tbl |->
        IF tbl[i].refresh_token = token \/ tbl[i].user_id = token.userId
        THEN [tbl[i] EXCEPT !.is_active = FALSE] ELSE tbl[i]]

\* deactivateSession: UPDATE ... SET is_active = false WHERE refresh_token = $1
DeactivateSession(tbl, token) ==
    [i \in DOMAIN tbl |->
        IF tbl[i].refresh_token = token
        THEN [tbl[i] EXCEPT !.is_active = FALSE] ELSE tbl[i]]

(***************************************************************************)
(* verifyOTP  (POST /auth/verify-otp)                                      *)
(***************************************************************************)
\* The codes stored so far, which a client may have received by mail.
StoredCodes == {o.otp_code : o \in otps}

\* const { email, otp, type = 'login' } = req.body
VerifyOTPStart(w, emails, codes, types) ==
    /\ CanStart(w)
    /\ \E email \in emails, otp \in codes \cup StoredCodes, type \in types :
         LET r == [Blank EXCEPT !.op = "verifyOTP", !.email = ToLowerCase(email),
                                !.otp = otp, !.type = type] IN
         IF email = "" \/ otp = <<>>
         THEN Respond(w, r, 400, "Email and OTP are required", NULL)
         ELSE IF ~IsValidOTPFormat(otp)
         THEN Respond(w, r, 400, "Invalid OTP format", NULL)
         ELSE Continue(w, r, "verify_getUser")
    /\ UNCHANGED <<now, ticks, users, otps, nextOtpId, sessions,
                   emailTransporter, nodeEnv, failedRedeems, refreshes, auditLogs,
                   hits, failedAttempts, otpLengthEnv, dbVars>>

\* await query(getUserByEmail)
VerifyOTPGetUser(w) ==
    /\ pc[w] = "verify_getUser"
    /\ LET found == GetUserByEmail(req[w].email) IN
       IF found = {}
       THEN Respond(w, req[w], 404, "User not found", "USER_NOT_FOUND")
       ELSE \E u \in found :
              Continue(w, [req[w] EXCEPT !.user = UserRow(u)], "verify_getOTP")
    /\ UNCHANGED <<now, ticks, users, otps, nextOtpId, sessions,
                   emailTransporter, nodeEnv, failedRedeems, refreshes, auditLogs,
                   hits, failedAttempts, otpLengthEnv, dbVars>>

\* await query(getValidOTP, [emailLower, otp, 'login'])
VerifyOTPGetOTP(w) ==
    /\ pc[w] = "verify_getOTP"
    /\ LET rows == GetValidOTP(req[w].email, req[w].otp, "login") IN
       IF rows = {}
       THEN Continue(w, req[w], "verify_increment")
       ELSE \E o \in rows :
              Continue(w, [req[w] EXCEPT !.row = o.id], "verify_mark")
    /\ UNCHANGED <<now, ticks, users, otps, nextOtpId, sessions,
                   emailTransporter, nodeEnv, failedRedeems, refreshes, auditLogs,
                   hits, failedAttempts, otpLengthEnv, dbVars>>

\* A challenge that is still in the state Issued.
Outstanding(o) ==
    o.is_verified = FALSE /\ o.expires_at > now /\ o.attempts < o.max_attempts

\* History: one more failed redemption for every outstanding challenge of
\* the e-mail.
CountFailedRedeem(email) ==
    [i \in 1..MaxOtps |->
        IF /\ \E o \in otps : o.id = i /\ o.email = email /\ Outstanding(o)
           /\ failedRedeems[i] < MAX_OTP_ATTEMPTS
        THEN failedRedeems[i] + 1 ELSE failedRedeems[i]]

\* The failure branch when it tells a client that the attempts of the
\* challenge it named are used up.
VerifyOTPIncrement_TellsExhausted(w, counted) ==
    /\ pc[w] = "verify_increment"
    /\ otps' = otps
    /\ IF \E o \in otps : /\ o.email = req[w].email
                          /\ o.otp_code = req[w].otp
                          /\ o.attempts >= o.max_attempts
       THEN Respond(w, req[w], 429, "Too many attempts", NULL)
       ELSE Respond(w, req[w], 500, "Failed to verify OTP. Please try again.", NULL)
    /\ failedRedeems' =
          IF counted THEN CountFailedRedeem(req[w].email) ELSE failedRedeems
    /\ UNCHANGED <<now, ticks, users, nextOtpId, sessions,
                   emailTransporter, nodeEnv, refreshes, auditLogs,
                   hits, failedAttempts, otpLengthEnv, dbVars>>

\* await query(incrementOTPAttempts, [emailLower, otp, 'login']), then 400;
\* a rejected query is caught by the handler's catch, which answers 500.
\* (counted: whether the history of failed redemptions is kept.)
VerifyOTPIncrement(w, counted) ==
    /\ pc[w] = "verify_increment"
    /\ IF QueryThrows("incrementOTPAttempts")
       THEN /\ otps' = otps
            /\ Respond(w, req[w], 500, "Failed to verify OTP. Please try again.", NULL)
       ELSE /\ otps' = IncrementOTPAttempts(otps, req[w].email, req[w].otp, "login")
            /\ Respond(w, req[w], 400, "Invalid or expired OTP", NULL)
    /\ failedRedeems' =
          IF counted THEN CountFailedRedeem(req[w].email) ELSE failedRedeems
    /\ UNCHANGED <<now, ticks, users, nextOtpId, sessions,
                   emailTransporter, nodeEnv, refreshes, auditLogs,
                   hits, failedAttempts, otpLengthEnv, dbVars>>

\* await query(verifyOTP, [otpRecord.id])
VerifyOTPMark(w) ==
    /\ pc[w] = "verify_mark"
    /\ otps' = MarkOTPVerified(otps, req[w].row)
    /\ Continue(w, req[w], "verify_lastLogin")
    /\ UNCHANGED <<now, ticks, users, nextOtpId, sessions,
                   emailTransporter, nodeEnv, failedRedeems, refreshes, auditLogs,
                   hits, failedAttempts, otpLengthEnv, dbVars>>

\* await query(updateLastLogin, [user.id])
VerifyOTPLastLogin(w) ==
    /\ pc[w] = "verify_lastLogin"
    /\ users' = UpdateLastLogin(users, req[w].user.id)
    /\ Continue(w, req[w], "verify_session")
    /\ UNCHANGED <<now, ticks, otps, nextOtpId, sessions,
                   emailTransporter, nodeEnv, failedRedeems, refreshes, auditLogs,
                   hits, failedAttempts, otpLengthEnv, dbVars>>

\* await query(updateLastLogin) when pool.query rejects: query() rethrows
\* and the handler's catch answers 500.
VerifyOTPLastLoginFails(w) ==
    /\ pc[w] = "verify_lastLogin"
    /\ Respond(w, req[w], 500, "Failed to verify OTP. Please try again.", NULL)
    /\ UNCHANGED <<now, ticks, users, otps, nextOtpId, sessions,
                   emailTransporter, nodeEnv, failedRedeems, refreshes, auditLogs,
                   hits, failedAttempts, otpLengthEnv, dbVars>>

\* await query(createSession) when pool.query rejects: no row is inserted
\* and the handler's catch answers 500.
VerifyOTPSessionFails(w) ==
    /\ pc[w] = "verify_session"
    /\ Respond(w, req[w], 500, "Failed to verify OTP. Please try again.", NULL)
    /\ UNCHANGED <<now, ticks, users, otps, nextOtpId, sessions,
                   emailTransporter, nodeEnv, failedRedeems, refreshes, auditLogs,
                   hits, failedAttempts, otpLengthEnv, dbVars>>

\* jwt.sign twice; await query(createSession); the 200 response.
\* (ttls: the values JWT_REFRESH_EXPIRES_IN is configured with.)
VerifyOTPSession(w, max, ttls) ==
    /\ pc[w] = "verify_session"
    /\ Len(sessions) < max
    /\ \E refreshTtl \in ttls :
       LET user == req[w].user
           accessToken ==
               JwtSign([userId |-> user.id, email |-> user.email,
                        role |-> RoleOrDefault(user.role_name)], "JWT_ACCESS_SECRET",
                       ACCESS_TOKEN_TTL)
           refreshToken ==
               JwtSign([userId |-> user.id, email |-> user.email],
                       "JWT_REFRESH_SECRET", refreshTtl)
       IN
       /\ sessions' = Append(sessions,
              CreateSession(user.id, refreshToken, now + SESSION_TTL))
       /\ Respond(w, [req[w] EXCEPT !.access = accessToken,
                                    !.refresh = refreshToken],
                  200, "Login successful", NULL)
    /\ UNCHANGED <<now, ticks, users, otps, nextOtpId,
                   emailTransporter, nodeEnv, failedRedeems, refreshes, auditLogs,
                   hits, failedAttempts, otpLengthEnv, dbVars>>

(***************************************************************************)
(* refreshToken  (POST /auth/refresh-token)                                *)
(***************************************************************************)
\* The refresh tokens handed out so far: every one is stored with its session.
IssuedRefreshTokens == {sessions[i].refresh_token : i \in DOMAIN sessions}

RefreshTokenStart(w, forged) ==
    /\ CanStart(w)
    /\ \E token \in IssuedRefreshTokens \cup forged \cup {NoToken} :
         LET r == [Blank EXCEPT !.op = "refreshToken", !.token = token] IN
         IF token = NoToken
         THEN Respond(w, r, 400, "Refresh token is required", NULL)
         ELSE IF JwtVerify(token, "JWT_REFRESH_SECRET") # "ok"
         THEN Respond(w, r, 401, "Invalid refresh token", NULL)
         ELSE Continue(w, r, "refresh_getSession")
    /\ UNCHANGED <<now, ticks, users, otps, nextOtpId, sessions,
                   emailTransporter, nodeEnv, failedRedeems, refreshes, auditLogs,
                   hits, failedAttempts, otpLengthEnv, dbVars>>

\* await query(getSessionByToken, [token])
RefreshTokenGetSession(w) ==
    /\ pc[w] = "refresh_getSession"
    /\ LET rows == GetSessionByToken(req[w].token) IN
       IF rows = {}
       THEN Respond(w, req[w], 401, "Invalid or expired session", NULL)
       ELSE \E i \in rows : Continue(w, [req[w] EXCEPT !.row = i], "refresh_touch")
    /\ UNCHANGED <<now, ticks, users, otps, nextOtpId, sessions,
                   emailTransporter, nodeEnv, failedRedeems, refreshes, auditLogs,
                   hits, failedAttempts, otpLengthEnv, dbVars>>

\* await query(updateSessionLastUsed, [session.id])
RefreshTokenTouch(w) ==
    /\ pc[w] = "refresh_touch"
    /\ sessions' = UpdateSessionLastUsed(sessions, req[w].row)
    /\ Continue(w, req[w], "refresh_getUser")
    /\ UNCHANGED <<now, ticks, users, otps, nextOtpId,
                   emailTransporter, nodeEnv, failedRedeems, refreshes, auditLogs,
                   hits, failedAttempts, otpLengthEnv, dbVars>>

\* History: one more refresh answered on the session.
CountRefresh(id) ==
    [i \in DOMAIN refreshes |->
        IF i = id /\ refreshes[i] < MaxRefreshes
        THEN refreshes[i] + 1 ELSE refreshes[i]]

\* await query(getUserById, [decoded.userId]); jwt.sign; the 200 response.
\* (counted: whether the history of answered refreshes is kept.)
RefreshTokenGetUser(w, counted) ==
    /\ pc[w] = "refresh_getUser"
    /\ LET found == GetUserById(req[w].token.userId) IN
       IF found = {}
       THEN /\ Respond(w, req[w], 404, "User not found", NULL)
            /\ refreshes' = refreshes
       ELSE \E u \in found :
              LET user == UserRow(u)
                  newAccessToken ==
                      JwtSign([userId |-> user.id, email |-> user.email,
                               role |-> RoleOrDefault(user.role_name)], "JWT_ACCESS_SECRET",
                              ACCESS_TOKEN_TTL)
              IN /\ Respond(w, [req[w] EXCEPT !.user = user,
                                              !.access = newAccessToken],
                            200, "Token refreshed successfully", NULL)
                 /\ refreshes' =
                       IF counted THEN CountRefresh(req[w].row) ELSE refreshes
    /\ UNCHANGED <<now, ticks, users, otps, nextOtpId, sessions,
                   emailTransporter, nodeEnv, failedRedeems, auditLogs,
                   hits, failedAttempts, otpLengthEnv, dbVars>>

(***************************************************************************)
(* logout  (POST /auth/logout)                                             *)
(***************************************************************************)
LogoutStart(w, forged) ==
    /\ CanStart(w)
    /\ \E token \in IssuedRefreshTokens \cup forged \cup {NoToken} :
         LET r == [Blank EXCEPT !.op = "logout", !.token = token] IN
         IF token = NoToken
         THEN Respond(w, r, 400, "Refresh token is required", NULL)
         ELSE Continue(w, r, "logout_deactivate")
    /\ UNCHANGED <<now, ticks, users, otps, nextOtpId, sessions,
                   emailTransporter, nodeEnv, failedRedeems, refreshes, auditLogs,
                   hits, failedAttempts, otpLengthEnv, dbVars>>

\* await query(deactivateSession, [token]); the 200 response.
LogoutDeactivate(w) ==
    /\ pc[w] = "logout_deactivate"
    /\ sessions' = DeactivateSession(sessions, req[w].token)
    /\ Respond(w, req[w], 200, "Logout successful", NULL)
    /\ UNCHANGED <<now, ticks, users, otps, nextOtpId,
                   emailTransporter, nodeEnv, failedRedeems, refreshes, auditLogs,
                   hits, failedAttempts, otpLengthEnv, dbVars>>

(***************************************************************************)
(* verifyToken middleware and logoutAllDevices  (POST /user/logout-all)    *)
(***************************************************************************)
\* The access tokens minted by the logins so far: one per session row,
\* signed when the session was created.
IssuedAccessTokens ==
    {[userId |-> sessions[i].user_id,
      email |-> users[sessions[i].user_id].email,
      role |-> RoleOrDefault(users[sessions[i].user_id].role_name),
      iat |-> sessions[i].created_at,
      exp |-> sessions[i].created_at + ACCESS_TOKEN_TTL,
      key |-> "JWT_ACCESS_SECRET"] : i \in DOMAIN sessions}

\* verifyToken up to its await: the Authorization header and jwt.verify.
LogoutAllStart(w) ==
    /\ CanStart(w)
    /\ \E token \in IssuedAccessTokens \cup {NoToken} :
         LET r == [Blank EXCEPT !.op = "logoutAllDevices", !.token = token] IN
         IF token = NoToken
         THEN Respond(w, r, 401,
                  "Access token required. Please provide a valid Bearer token.", NULL)
         ELSE IF JwtVerify(token, "JWT_ACCESS_SECRET") = "expired"
         THEN Respond(w, r, 401,
                  "Access token expired. Please refresh your token.", "TOKEN_EXPIRED")
         ELSE IF JwtVerify(token, "JWT_ACCESS_SECRET") = "invalid"
         THEN Respond(w, r, 401, "Invalid access token", "TOKEN_INVALID")
         ELSE Continue(w, r, "verifyToken_getUser")
    /\ UNCHANGED <<now, ticks, users, otps, nextOtpId, sessions,
                   emailTransporter, nodeEnv, failedRedeems, refreshes, auditLogs,
                   hits, failedAttempts, otpLengthEnv, dbVars>>

\* verifyToken: await query(getUserById, [decoded.userId]); req.user; next()
VerifyTokenGetUser(w) ==
    /\ pc[w] = "verifyToken_getUser"
    /\ LET found == GetUserById(req[w].token.userId) IN
       IF found = {}
       THEN Respond(w, req[w], 401, "User not found or inactive", "USER_NOT_FOUND")
       ELSE \E u \in found :
              IF ~UserRow(u).is_active
              THEN Respond(w, req[w], 401, "User account is inactive", "USER_INACTIVE")
              ELSE Continue(w, [req[w] EXCEPT !.user = UserRow(u)], "logoutAll_query")
    /\ UNCHANGED <<now, ticks, users, otps, nextOtpId, sessions,
                   emailTransporter, nodeEnv, failedRedeems, refreshes, auditLogs,
                   hits, failedAttempts, otpLengthEnv, dbVars>>

\* logoutAllDevices: await query(authQueries.deactivateAllUserSessions,
\* [userId]).  pool.query is handed the value of that property; when the
\* property is not defined the call rejects and the catch answers 500.
LogoutAllQuery(w) ==
    /\ pc[w] = "logoutAll_query"
    /\ IF QueryThrows("deactivateAllUserSessions")
       THEN /\ sessions' = sessions
            /\ Respond(w, req[w], 500, "Failed to logout from all devices", NULL)
       ELSE /\ sessions' = sessions
            /\ Respond(w, req[w], 200, "Logged out from all devices successfully", NULL)
    /\ UNCHANGED <<now, ticks, users, otps, nextOtpId,
                   emailTransporter, nodeEnv, failedRedeems, refreshes, auditLogs,
                   hits, failedAttempts, otpLengthEnv, dbVars>>

(***************************************************************************)
(* optionalAuth middleware, in front of a handler that answers 200         *)
(***************************************************************************)
\* A well-formed access token that this server did not sign.
ForgedAccessToken ==
    [userId |-> "u2", email |-> "b@x.com", role |-> "admin", iat |-> 0,
     exp |-> ACCESS_TOKEN_TTL, key |-> "FORGED"]

\* optionalAuth up to the first await.  Without a Bearer token it sets
\* req.user = null and calls next(); with one it awaits
\* verifyToken(req, res, next), which sends the 401 responses itself.
OptionalAuthStart(w, forged) ==
    /\ CanStart(w)
    /\ \E token \in IssuedAccessTokens \cup forged \cup {NoToken} :
         LET r == [Blank EXCEPT !.op = "optionalAuth", !.token = token] IN
         IF token = NoToken
         THEN Continue(w, r, "optionalAuth_next")
         ELSE IF JwtVerify(token, "JWT_ACCESS_SECRET") = "expired"
         THEN Respond(w, r, 401,
                  "Access token expired. Please refresh your token.", "TOKEN_EXPIRED")
         ELSE IF JwtVerify(token, "JWT_ACCESS_SECRET") = "invalid"
         THEN Respond(w, r, 401, "Invalid access token", "TOKEN_INVALID")
         ELSE Continue(w, r, "optionalAuth_getUser")
    /\ UNCHANGED <<now, ticks, users, otps, nextOtpId, sessions,
                   emailTransporter, nodeEnv, failedRedeems, refreshes, auditLogs,
                   hits, failedAttempts, otpLengthEnv, dbVars>>

\* verifyToken called by optionalAuth: await query(getUserById); req.user;
\* next()
OptionalAuthGetUser(w) ==
    /\ pc[w] = "optionalAuth_getUser"
    /\ LET found == GetUserById(req[w].token.userId) IN
       IF found = {}
       THEN Respond(w, req[w], 401, "User not found or inactive", "USER_NOT_FOUND")
       ELSE \E u \in found :
              Continue(w, [req[w] EXCEPT !.user = UserRow(u)], "optionalAuth_next")
    /\ UNCHANGED <<now, ticks, users, otps, nextOtpId, sessions,
                   emailTransporter, nodeEnv, failedRedeems, refreshes, auditLogs,
                   hits, failedAttempts, otpLengthEnv, dbVars>>

\* The handler behind the middleware: it answers 200 with or without
\* req.user.
OptionalAuthNext(w) ==
    /\ pc[w] = "optionalAuth_next"
    /\ Respond(w, req[w], 200, "next", NULL)
    /\ UNCHANGED <<now, ticks, users, otps, nextOtpId, sessions,
                   emailTransporter, nodeEnv, failedRedeems, refreshes, auditLogs,
                   hits, failedAttempts, otpLengthEnv, dbVars>>

(***************************************************************************)
(* GET /auth/me                                                            *)
(***************************************************************************)
\* decoded.id: the claim "id" of the payload, undefined when the payload
\* has no such claim; pg sends an undefined parameter as NULL.
DecodedId(token) == IF "id" \in DOMAIN token THEN token.id ELSE NULL

\* SELECT ... FROM users WHERE id = $1 (no row satisfies id = NULL)
SelectUserById(id) == {u \in DOMAIN users : id # NULL /\ u = id}

\* The handler up to its await: the Authorization header and jwt.verify,
\* whose errors the catch answers by name.
MeStart(w, forged) ==
    /\ CanStart(w)
    /\ \E token \in IssuedAccessTokens \cup forged \cup {NoToken} :
         LET r == [Blank EXCEPT !.op = "me", !.token = token] IN
         IF token = NoToken
         THEN Respond(w, r, 401, "Access token required", NULL)
         ELSE IF JwtVerify(token, "JWT_ACCESS_SECRET") = "invalid"
         THEN Respond(w, r, 401, "Invalid token", NULL)
         ELSE IF JwtVerify(token, "JWT_ACCESS_SECRET") = "expired"
         THEN Respond(w, r, 401, "Token expired", NULL)
         ELSE Continue(w, r, "me_query")
    /\ UNCHANGED <<now, ticks, users, otps, nextOtpId, sessions,
                   emailTransporter, nodeEnv, failedRedeems, refreshes, auditLogs,
                   hits, failedAttempts, otpLengthEnv, dbVars>>

\* await query('SELECT ... WHERE id = $1', [decoded.id]); the response.
MeQuery(w) ==
    /\ pc[w] = "me_query"
    /\ LET rows == SelectUserById(DecodedId(req[w].token)) IN
       IF rows = {}
       THEN Respond(w, req[w], 404, "User not found", NULL)
       ELSE \E u \in rows :
              Respond(w, [req[w] EXCEPT !.user = UserRow(u)], 200,
                      "User information retrieved successfully", NULL)
    /\ UNCHANGED <<now, ticks, users, otps, nextOtpId, sessions,
                   emailTransporter, nodeEnv, failedRedeems, refreshes, auditLogs,
                   hits, failedAttempts, otpLengthEnv, dbVars>>

(***************************************************************************)
(* authRateLimit, the express-rate-limit middleware in front of            *)
(* POST /auth/send-otp and POST /auth/verify-otp.  The routes behind it    *)
(* are its environment here: a request is the address it comes from and    *)
(* the status its route answers with when the middleware lets it pass.     *)
(***************************************************************************)
\* The statuses sendOTP and verifyOTP answer with.
RouteStatuses == {200, 400, 403, 404, 500}

\* skip: (req, res) => res.statusCode < 400
Skip(statusCode) == statusCode < 400

\* History: one more failed attempt of the address.
CountFailedAttempt(ip, status) ==
    [failedAttempts EXCEPT ![ip] =
        IF status >= 400 /\ @ < MaxFailedAttempts THEN @ + 1 ELSE @]

\* The middleware on one request.  It calls skip first, with the response
\* object no handler has touched yet (statusCode 200), and passes a
\* skipped request on without counting it; otherwise it increments the
\* hits of the address and rejects with 429 once they exceed max.
AuthRateLimit(ips, statuses) ==
    /\ \E ip \in ips, status \in statuses :
         LET r == [Blank EXCEPT !.op = "authRateLimit", !.ip = ip]
             statusCode == 200
             totalHits == hits[ip] + 1
         IN
         IF Skip(statusCode)
         THEN /\ hits' = hits
              /\ res' = [r EXCEPT !.status = status]
              /\ failedAttempts' = CountFailedAttempt(ip, status)
         ELSE /\ hits' = [hits EXCEPT ![ip] = totalHits]
              /\ IF totalHits > RATE_LIMIT_AUTH_MAX
                 THEN /\ res' = [r EXCEPT
                            !.status = 429,
                            !.message = "Too many authentication attempts. Please try again in 15 minutes."]
                      /\ failedAttempts' = CountFailedAttempt(ip, 429)
                 ELSE /\ res' = [r EXCEPT !.status = status]
                      /\ failedAttempts' = CountFailedAttempt(ip, status)
    /\ UNCHANGED <<now, ticks, users, otps, nextOtpId, sessions, pc, req,
                   emailTransporter, nodeEnv, failedRedeems, refreshes, auditLogs,
                   otpLengthEnv, dbVars>>

\* The window of the store ends: the hits of every address are dropped.
RateLimitWindowEnds(max) ==
    /\ ticks < max
    /\ now' = now + RATE_LIMIT_WINDOW
    /\ ticks' = ticks + 1
    /\ hits' = [ip \in Ips |-> 0]
    /\ failedAttempts' = [ip \in Ips |-> 0]
    /\ res' = Blank
    /\ UNCHANGED <<users, otps, nextOtpId, sessions, pc, req,
                   emailTransporter, nodeEnv, failedRedeems, refreshes, auditLogs,
                   otpLengthEnv, dbVars>>

(***************************************************************************)
(* Admin: updateUserStatus (PUT /admin/users/:id/status) and deleteUser    *)
(* (DELETE /admin/users/:id).  Each handler changes the users table with   *)
(* one UPDATE statement; the step below is that statement together with    *)
(* the checks before it and the response after it.  The requests are made  *)
(* by the admin account u1.                                                *)
(***************************************************************************)
AdminId == "u1"

\* The value of deleted_at once set (only IS NULL is ever read of it).
DELETED == "CURRENT_TIMESTAMP"

\* updateUserStatus without its condition on deleted_at.
UpdateUserStatus_AnyRow(tbl, id, isActive) ==
    [u \in DOMAIN tbl |->
        IF u = id THEN [tbl[u] EXCEPT !.is_active = isActive] ELSE tbl[u]]

\* updateUserStatus as a statement that can only deactivate.
UpdateUserStatus_OneWay(tbl, id, isActive) ==
    [u \in DOMAIN tbl |->
        IF u = id /\ tbl[u].deleted_at = NULL
        THEN [tbl[u] EXCEPT !.is_active = @ /\ isActive] ELSE tbl[u]]

\* updateUserStatus: UPDATE users SET is_active = $2
\*   WHERE id = $1 AND deleted_at IS NULL
UpdateUserStatus(tbl, id, isActive) ==
    [u \in DOMAIN tbl |->
        IF u = id /\ tbl[u].deleted_at = NULL
        THEN [tbl[u] EXCEPT !.is_active = isActive] ELSE tbl[u]]

\* softDeleteUser: UPDATE users SET deleted_at = CURRENT_TIMESTAMP,
\*   is_active = false WHERE id = $1 AND deleted_at IS NULL
SoftDeleteUser(tbl, id) ==
    [u \in DOMAIN tbl |->
        IF u = id /\ tbl[u].deleted_at = NULL
        THEN [tbl[u] EXCEPT !.is_active = FALSE, !.deleted_at = DELETED]
        ELSE tbl[u]]

\* The ids a request names in its path: the ids of rows as the database
\* prints them, the id of the admin's row in upper case, an id of no row,
\* and a string that is not a UUID.
UserIdInputs == {"u1", "U1", "u2", "u9", "not-a-uuid"}

\* /^[0-9a-f]{8}-...-[0-9a-f]{12}$/i on the inputs above.
UuidRegexTest(id) == id # "not-a-uuid"

\* WHERE id = $1 on a uuid column: the parameter is read as a uuid, and the
\* uuid input syntax accepts upper-case digits.
UuidOf(id) == IF id = "U1" THEN "u1" ELSE id

\* The request bodies of PUT /admin/users/:id/status.
StatusBodies == {[is_active |-> TRUE], [is_active |-> FALSE], [active |-> TRUE]}

\* The request bodies of POST /admin/users/create.
CreateBodies ==
    [email : {"n@x.com", "A@X.COM", "not-an-email", ""},
     profile_picture_url : {"https://x.com/p.jpg", ""},
     role_id : {3, 9}]

\* gen_random_uuid(): the id of the next row of users.
NewUserIds == {"u4"}

\* roles as the admin migration seeds them.
RoleName(role_id) ==
    CASE role_id = 1 -> "admin"
      [] role_id = 2 -> "manager"
      [] OTHER -> "user"

\* createUserByAdmin: INSERT ... VALUES ($1, $2, $3, true, true, $4, ...)
CreateUserByAdmin(tbl, id, email, role_id) ==
    tbl @@ (id :> [email |-> email, is_active |-> TRUE,
                   role_name |-> RoleName(role_id), last_login |-> NULL_TIMESTAMP,
                   deleted_at |-> NULL])

\* createAuditLog: the row of audit_logs.
CreateAuditLog(adminId, action, resourceId) ==
    [user_id |-> adminId, action |-> action, resource_type |-> "user",
     resource_id |-> resourceId, created_at |-> now]

\* logAdminAction that lets the rejection of its query escape.
LogAdminAction_Rethrows(written) == IF written THEN "logged" ELSE "thrown"

\* logAdminAction: try { await query(createAuditLog) } catch { console.error }
\* (written: whether the insert succeeded).  The promise it returns is
\* fulfilled either way.
LogAdminAction(written) == IF written THEN "logged" ELSE "swallowed"

AdminRespond(op, id, s, c) ==
    /\ res' = [Blank EXCEPT !.op = op, !.user = [id |-> id],
                            !.status = s, !.code = c]
    /\ UNCHANGED <<pc, req>>

\* A response sent before any statement that writes.
AdminRefuse(op, id, s, c) ==
    /\ AdminRespond(op, id, s, c)
    /\ UNCHANGED <<users, auditLogs>>

\* await logAdminAction({...}); the success response.  A rejection of the
\* await is caught by the handler's catch, which answers 500.
AdminLogAndRespond(op, id, action, resourceId, s, written) ==
    LET outcome == LogAdminAction(written) IN
    /\ auditLogs' =
          IF outcome = "logged"
          THEN auditLogs \cup {CreateAuditLog(AdminId, action, resourceId)}
          ELSE auditLogs
    /\ IF outcome = "thrown"
       THEN AdminRespond(op, id, 500, NULL)
       ELSE AdminRespond(op, id, s, NULL)

\* router.use(verifyToken); router.use(requireRole(['admin'])): the checks
\* every admin route makes of the caller.
AdminAuthorized ==
    \E u \in GetUserById(AdminId) : RoleOrDefault(users[u].role_name) = "admin"

AdminCreateUser(bodies) ==
    /\ \E body \in bodies, written \in BOOLEAN :
         LET emailLower == ToLowerCase(body.email)
             existing == {u \in DOMAIN users : users[u].email = emailLower}
             free == NewUserIds \ DOMAIN users
         IN
         IF ~AdminAuthorized
         THEN AdminRefuse("createUser", NULL, 401, "USER_NOT_FOUND")
         ELSE IF body.email = "" \/ body.profile_picture_url = ""
         THEN AdminRefuse("createUser", NULL, 400, NULL)
         ELSE IF ~EmailRegexTest(body.email)
         THEN AdminRefuse("createUser", NULL, 400, NULL)
         ELSE IF body.role_id \notin {1, 2, 3}
         THEN AdminRefuse("createUser", NULL, 400, NULL)
         ELSE IF \E u \in existing : users[u].deleted_at = NULL
         THEN AdminRefuse("createUser", NULL, 409, "USER_EXISTS")
         ELSE IF existing # {}
         THEN AdminRefuse("createUser", NULL, 409, "USER_DELETED_EXISTS")
         ELSE /\ free # {}
              /\ \E id \in free :
                   /\ users' = CreateUserByAdmin(users, id, emailLower, body.role_id)
                   /\ AdminLogAndRespond("createUser", id, "USER_CREATED", id,
                                         201, written)
    /\ UNCHANGED <<now, ticks, otps, nextOtpId, sessions,
                   emailTransporter, nodeEnv, failedRedeems, refreshes,
                   hits, failedAttempts, otpLengthEnv, dbVars>>

AdminUpdateUserStatus(ids) ==
    /\ \E id \in ids, body \in StatusBodies, written \in BOOLEAN :
         LET row == UuidOf(id) IN
         IF ~AdminAuthorized
         THEN AdminRefuse("updateUserStatus", id, 401, "USER_NOT_FOUND")
         ELSE IF ~UuidRegexTest(id)
         THEN AdminRefuse("updateUserStatus", id, 400, NULL)
         ELSE IF "is_active" \notin DOMAIN body
         THEN AdminRefuse("updateUserStatus", id, 400, NULL)
         ELSE IF row \notin DOMAIN users
         THEN AdminRefuse("updateUserStatus", id, 404, "USER_NOT_FOUND")
         ELSE IF users[row].deleted_at # NULL
         THEN AdminRefuse("updateUserStatus", id, 400, "USER_DELETED")
         ELSE IF id = AdminId /\ ~body.is_active
         THEN AdminRefuse("updateUserStatus", id, 400, "SELF_DEACTIVATION_BLOCKED")
         ELSE /\ users' = UpdateUserStatus(users, row, body.is_active)
              /\ AdminLogAndRespond("updateUserStatus", id,
                    IF body.is_active THEN "USER_ACTIVATED" ELSE "USER_DEACTIVATED",
                    id, 200, written)
    /\ UNCHANGED <<now, ticks, otps, nextOtpId, sessions,
                   emailTransporter, nodeEnv, failedRedeems, refreshes,
                   hits, failedAttempts, otpLengthEnv, dbVars>>

AdminDeleteUser(ids) ==
    /\ \E id \in ids, written \in BOOLEAN :
         LET row == UuidOf(id) IN
         IF ~AdminAuthorized
         THEN AdminRefuse("deleteUser", id, 401, "USER_NOT_FOUND")
         ELSE IF ~UuidRegexTest(id)
         THEN AdminRefuse("deleteUser", id, 400, NULL)
         ELSE IF id = AdminId
         THEN AdminRefuse("deleteUser", id, 400, "SELF_DELETION_BLOCKED")
         ELSE IF row \notin DOMAIN users
         THEN AdminRefuse("deleteUser", id, 404, "USER_NOT_FOUND")
         ELSE IF users[row].deleted_at # NULL
         THEN AdminRefuse("deleteUser", id, 400, "USER_ALREADY_DELETED")
         ELSE /\ users' = SoftDeleteUser(users, row)
              /\ AdminLogAndRespond("deleteUser", id, "USER_DELETED", id,
                                    200, written)
    /\ UNCHANGED <<now, ticks, otps, nextOtpId, sessions,
                   emailTransporter, nodeEnv, failedRedeems, refreshes,
                   hits, failedAttempts, otpLengthEnv, dbVars>>

\* restoreUser: UPDATE users SET deleted_at = NULL, is_active = true
\* WHERE id = $1 AND deleted_at IS NOT NULL.
RestoreUser(tbl, id) ==
    [u \in DOMAIN tbl |->
        IF u = id /\ tbl[u].deleted_at # NULL
        THEN [tbl[u] EXCEPT !.is_active = TRUE, !.deleted_at = NULL]
        ELSE tbl[u]]

\* The restoreUser statement run on the table (no route runs it).
RestoreUserStatement(ids) ==
    /\ \E id \in ids : users' = RestoreUser(users, id)
    /\ res' = Blank
    /\ UNCHANGED <<now, ticks, otps, nextOtpId, sessions, pc, req,
                   emailTransporter, nodeEnv, failedRedeems, refreshes, auditLogs,
                   hits, failedAttempts, otpLengthEnv, dbVars>>

(***************************************************************************)
(* Admin requests in flight: PATCH /users/:id/status and DELETE            *)
(* /users/:id step by step, one step per await, sent by any admin that     *)
(* holds an access token.                                                  *)
(***************************************************************************)
AdminOperations == {"updateUserStatus", "deleteUser"}

\* verifyToken up to its query.
AdminRequestStart(w, admins, ids) ==
    /\ CanStart(w)
    /\ \E token \in {t \in IssuedAccessTokens : t.userId \in admins},
          op \in AdminOperations, id \in ids :
       \E body \in IF op = "deleteUser" THEN {NoBody} ELSE StatusBodies :
         LET r == [Blank EXCEPT !.op = op, !.token = token, !.target = id,
                                !.body = body] IN
         IF JwtVerify(token, "JWT_ACCESS_SECRET") = "expired"
         THEN Respond(w, r, 401,
                  "Access token expired. Please refresh your token.", "TOKEN_EXPIRED")
         ELSE IF JwtVerify(token, "JWT_ACCESS_SECRET") = "invalid"
         THEN Respond(w, r, 401, "Invalid access token", "TOKEN_INVALID")
         ELSE Continue(w, r, "admin_verifyToken")
    /\ UNCHANGED <<now, ticks, users, otps, nextOtpId, sessions,
                   emailTransporter, nodeEnv, failedRedeems, refreshes, auditLogs,
                   hits, failedAttempts, otpLengthEnv, dbVars>>

\* The rest of verifyToken, requireRole(['admin']) and the handler up to
\* its first query.
AdminVerifyToken(w) ==
    /\ pc[w] = "admin_verifyToken"
    /\ LET found == GetUserById(req[w].token.userId)
           r == req[w]
       IN
       IF found = {}
       THEN Respond(w, r, 401, "User not found or inactive", "USER_NOT_FOUND")
       ELSE \E u \in found :
              IF RoleOrDefault(UserRow(u).role_name) # "admin"
              THEN Respond(w, r, 403, "Access denied. Required role: admin", NULL)
              ELSE IF ~UuidRegexTest(r.target)
              THEN Respond(w, r, 400, "Invalid user ID format", NULL)
              ELSE IF r.op = "updateUserStatus" /\ "is_active" \notin DOMAIN r.body
              THEN Respond(w, r, 400, "is_active must be a boolean value", NULL)
              ELSE IF r.op = "deleteUser" /\ r.target = u
              THEN Respond(w, r, 400, "You cannot delete your own account",
                           "SELF_DELETION_BLOCKED")
              ELSE Continue(w, [r EXCEPT !.user = UserRow(u)], "admin_getUser")
    /\ UNCHANGED <<now, ticks, users, otps, nextOtpId, sessions,
                   emailTransporter, nodeEnv, failedRedeems, refreshes, auditLogs,
                   hits, failedAttempts, otpLengthEnv, dbVars>>

\* await query(adminQueries.getUserByIdAdmin, [id]) and the checks on its
\* row.
AdminGetUser(w) ==
    /\ pc[w] = "admin_getUser"
    /\ LET r == req[w]
           row == UuidOf(r.target)
       IN
       IF row \notin DOMAIN users
       THEN Respond(w, r, 404, "User not found", "USER_NOT_FOUND")
       ELSE IF users[row].deleted_at # NULL
       THEN Respond(w, r, 400, NULL,
                IF r.op = "deleteUser" THEN "USER_ALREADY_DELETED" ELSE "USER_DELETED")
       ELSE IF /\ r.op = "updateUserStatus"
               /\ r.target = r.user.id
               /\ ~r.body.is_active
       THEN Respond(w, r, 400, "You cannot deactivate your own account",
                    "SELF_DEACTIVATION_BLOCKED")
       ELSE Continue(w, r, "admin_write")
    /\ UNCHANGED <<now, ticks, users, otps, nextOtpId, sessions,
                   emailTransporter, nodeEnv, failedRedeems, refreshes, auditLogs,
                   hits, failedAttempts, otpLengthEnv, dbVars>>

\* await query(adminQueries.updateUserStatus | softDeleteUser, ...), await
\* logAdminAction({...}) and the response.
AdminWrite(w) ==
    /\ pc[w] = "admin_write"
    /\ \E written \in BOOLEAN :
       LET r == req[w]
           row == UuidOf(r.target)
           returned == row \in DOMAIN users /\ users[row].deleted_at = NULL
           outcome == LogAdminAction(written)
           action == IF r.op = "deleteUser" THEN "USER_DELETED"
                     ELSE IF r.body.is_active THEN "USER_ACTIVATED"
                     ELSE "USER_DEACTIVATED"
       IN
       /\ users' = IF r.op = "deleteUser"
                   THEN SoftDeleteUser(users, row)
                   ELSE UpdateUserStatus(users, row, r.body.is_active)
       /\ IF ~returned
          THEN /\ UNCHANGED auditLogs
               /\ IF r.op = "deleteUser"
                  THEN Respond(w, r, 400, "Failed to delete user", "DELETE_FAILED")
                  ELSE Respond(w, r, 404, "Failed to update user status",
                               "UPDATE_FAILED")
          ELSE /\ auditLogs' =
                     IF outcome = "logged"
                     THEN auditLogs \cup {CreateAuditLog(r.user.id, action, r.target)}
                     ELSE auditLogs
               /\ IF outcome = "thrown"
                  THEN Respond(w, r, 500, NULL, NULL)
                  ELSE Respond(w, r, 200, NULL, NULL)
    /\ UNCHANGED <<now, ticks, otps, nextOtpId, sessions,
                   emailTransporter, nodeEnv, failedRedeems, refreshes,
                   hits, failedAttempts, otpLengthEnv, dbVars>>

AdminRequest(w, admins, ids) ==
    \/ AdminRequestStart(w, admins, ids)
    \/ AdminVerifyToken(w)
    \/ AdminGetUser(w)
    \/ AdminWrite(w)

(***************************************************************************)
(* config/database.js, the serverless entry point api/index.js and the     *)
(* shutdown of server.js                                                   *)
(***************************************************************************)
\* Everything the routes keep.
tables == <<now, ticks, users, otps, nextOtpId, sessions, emailTransporter,
            nodeEnv, failedRedeems, refreshes, auditLogs, hits, failedAttempts,
            otpLengthEnv>>

Running == proc.exitCode = RUNNING

\* The Pool objects that were created and have not ended.
LivePools == {i \in DOMAIN pools : pools[i].state # "ended"}

\* if (pool) return pool, where every call makes a new Pool.
PoolOrNew_AlwaysNew(current, fresh) == fresh

\* if (pool) { return pool; } pool = new Pool(dbConfig);
PoolOrNew(current, fresh) == IF current # 0 THEN current ELSE fresh

\* getPool: throws when pool is null.
GetPool == IF pool = 0 THEN "Database not connected" ELSE "ok"

\* query(...): getPool, then pool.query, which may reject on a pool whose
\* test connection has not succeeded.
QueryOutcomes ==
    IF GetPool # "ok" THEN {500}
    ELSE IF pools[pool].tested THEN {200} ELSE {200, 500}

\* return app(req, res): the route runs its queries and answers.
HandlerApp(w, r) ==
    \E s \in QueryOutcomes :
       Respond(w, [r EXCEPT !.row = pool], s,
               IF GetPool # "ok" THEN GetPool ELSE NULL, NULL)

\* The serverless handler up to the await of connectDatabase's test
\* connection: initDatabase, and connectDatabase up to pool.connect().
HandlerStart(w, max) ==
    /\ Running
    /\ CanStart(w)
    /\ LET r == [Blank EXCEPT !.op = "handler"]
           fresh == Len(pools) + 1
       IN
       IF dbConnected
       THEN /\ HandlerApp(w, r)
            /\ UNCHANGED <<pool, pools, dbConnected>>
       ELSE IF PoolOrNew(pool, fresh) # fresh
       THEN /\ dbConnected' = TRUE
            /\ HandlerApp(w, r)
            /\ UNCHANGED <<pool, pools>>
       ELSE /\ Len(pools) < max
            /\ pool' = fresh
            /\ pools' = Append(pools, [state |-> "open", tested |-> FALSE])
            /\ Continue(w, [r EXCEPT !.row = fresh], "connect_test")
            /\ UNCHANGED dbConnected
    /\ UNCHANGED <<tables, proc, ends>>

\* const client = await pool.connect(); await client.query('SELECT NOW(),
\* version()'): the test succeeds, and the handler goes on to the app.
ConnectTestSucceeds(w) ==
    /\ Running
    /\ pc[w] = "connect_test"
    /\ pools' = [pools EXCEPT ![req[w].row].tested = TRUE]
    /\ dbConnected' = TRUE
    /\ \E s \in IF pool = 0 THEN {500} ELSE {200} :
          Respond(w, [req[w] EXCEPT !.row = pool], s,
                  IF pool = 0 THEN GetPool ELSE NULL, NULL)
    /\ UNCHANGED <<tables, pool, proc, ends>>

\* The test connection fails: connectDatabase logs and rethrows,
\* initDatabase rethrows, the handler answers 500.
ConnectTestFails(w) ==
    /\ Running
    /\ pc[w] = "connect_test"
    /\ Respond(w, req[w], 500, "Internal server error", NULL)
    /\ UNCHANGED <<tables, pool, pools, dbConnected, proc, ends>>

Handler(w, max) ==
    \/ HandlerStart(w, max)
    \/ ConnectTestSucceeds(w)
    \/ ConnectTestFails(w)

\* A call of getPool().
GetPoolCall(w) ==
    /\ Running
    /\ CanStart(w)
    /\ Respond(w, [Blank EXCEPT !.op = "getPool", !.row = pool],
               IF GetPool = "ok" THEN 200 ELSE 500,
               IF GetPool = "ok" THEN NULL ELSE GetPool, NULL)
    /\ UNCHANGED <<tables, dbVars>>

\* closeDatabase up to await pool.end().  A call that finds pool null
\* returns at once.
CloseDatabaseStart(exits) ==
    IF pool = 0
    THEN UNCHANGED <<pools, ends>>
    ELSE /\ pools' = [pools EXCEPT ![pool].state =
                         IF @ = "open" THEN "ending" ELSE @]
         /\ ends' = Append(ends, [pool |-> pool, exits |-> exits,
                                  again |-> pools[pool].state # "open"])

\* A call of closeDatabase() by a script.
CloseDatabaseCall ==
    /\ Running
    /\ pool # 0
    /\ ends = <<>>
    /\ CloseDatabaseStart(FALSE)
    /\ res' = Blank
    /\ UNCHANGED <<tables, pc, req, pool, dbConnected, proc>>

\* process.exit(code).
Exit(code) == proc' = [proc EXCEPT !.exitCode = code]

\* pool.end() resolves: pool = null, and in the close callback of
\* gracefulShutdown process.exit(0).  pool.end() called on a pool that is
\* already ending rejects: closeDatabase rethrows, and the close callback
\* calls process.exit(1).
PoolEndSettles ==
    /\ Running
    /\ \E i \in DOMAIN ends :
       LET e == ends[i] IN
       /\ IF e.again
          THEN /\ UNCHANGED <<pool, pools>>
               /\ IF e.exits THEN Exit(1) ELSE UNCHANGED proc
          ELSE /\ pool' = 0
               /\ pools' = [pools EXCEPT ![e.pool].state = "ended"]
               /\ IF e.exits THEN Exit(0) ELSE UNCHANGED proc
       /\ ends' = SubSeq(ends, 1, i - 1) \o SubSeq(ends, i + 1, Len(ends))
    /\ res' = Blank
    /\ UNCHANGED <<tables, pc, req, dbConnected>>

\* The 'close' listener of server.close(callback) runs immediately.
OnceClose_Immediately(server) == TRUE

\* server.close(callback): the callback runs once the server has closed.
OnceClose(server) == server = "closed"

\* gracefulShutdown(signal): server.close(async () => {...}) and
\* setTimeout(..., 10000).
GracefulShutdown(max) ==
    /\ Running
    /\ proc.signals < max
    /\ proc' = [proc EXCEPT !.signals = @ + 1,
                            !.server = IF @ = "listening" THEN "closing" ELSE @,
                            !.callbacks = @ + 1,
                            !.timers = @ + 1]
    /\ res' = Blank
    /\ UNCHANGED <<tables, pc, req, pool, pools, dbConnected, ends>>

\* The last connection ends: the HTTP server has closed.
ServerCloses ==
    /\ Running
    /\ proc.server = "closing"
    /\ \A w \in Workers : pc[w] = "idle"
    /\ proc' = [proc EXCEPT !.server = "closed"]
    /\ res' = Blank
    /\ UNCHANGED <<tables, pc, req, pool, pools, dbConnected, ends>>

\* A close callback runs: await closeDatabase(), then process.exit(0).
CloseCallback ==
    /\ Running
    /\ proc.callbacks > 0
    /\ OnceClose(proc.server)
    /\ CloseDatabaseStart(TRUE)
    /\ proc' = [proc EXCEPT !.callbacks = @ - 1,
                            !.exitCode = IF pool = 0 THEN 0 ELSE @]
    /\ res' = Blank
    /\ UNCHANGED <<tables, pc, req, pool, dbConnected>>

\* The forced-shutdown timer fires.
ForcedShutdown ==
    /\ Running
    /\ proc.timers > 0
    /\ Exit(1)
    /\ res' = Blank
    /\ UNCHANGED <<tables, pc, req, pool, pools, dbConnected, ends>>

(***************************************************************************)
(* The clock                                                               *)
(***************************************************************************)
Tick(steps, max) ==
    /\ ticks < max
    /\ \E d \in steps : now' = now + d
    /\ ticks' = ticks + 1
    /\ res' = Blank
    /\ UNCHANGED <<users, otps, nextOtpId, sessions, pc, req,
                   emailTransporter, nodeEnv, failedRedeems, refreshes, auditLogs,
                   hits, failedAttempts, otpLengthEnv, dbVars>>

\* server.js after startServer: connectDatabase has succeeded and the HTTP
\* server listens.
InitProcess ==
    /\ pool = 1
    /\ pools = <<[state |-> "open", tested |-> TRUE]>>
    /\ dbConnected = FALSE
    /\ proc = [server |-> "listening", callbacks |-> 0, timers |-> 0,
               signals |-> 0, exitCode |-> RUNNING]
    /\ ends = <<>>

\* The tables and the module state of the routes after start.
InitTables ==
    /\ now = 0
    /\ ticks = 0
    /\ users = InitUsers
    /\ otps = {}
    /\ nextOtpId = 1
    /\ sessions = <<>>
    /\ pc = [w \in Workers |-> "idle"]
    /\ req = [w \in Workers |-> Blank]
    /\ res = Blank
    /\ emailTransporter = NULL
    /\ nodeEnv \in {"development", "production"}
    /\ failedRedeems = [i \in 1..MaxOtps |-> 0]
    /\ refreshes = [i \in 1..MaxLogins |-> 0]
    /\ auditLogs = {}
    /\ hits = [ip \in Ips |-> 0]
    /\ failedAttempts = [ip \in Ips |-> 0]

\* The server after start, whatever OTP_LENGTH is set to.
InitServer == InitTables /\ InitProcess

\* The server started without OTP_LENGTH in its environment.
Init == InitServer /\ otpLengthEnv = 0

\* What the clients of a specification send and how the server is
\* configured: the request bodies, the forged tokens, the values of
\* JWT_REFRESH_EXPIRES_IN, the rows the tables may hold, and which
\* histories are kept.
SpecIn ==
    [emails |-> EmailInputs, codes |-> CodeInputs, types |-> {"login"},
     forged |-> {ForgedToken}, refreshTtls |-> {REFRESH_TOKEN_TTL},
     maxOtps |-> MaxOtps, maxSessions |-> MaxSessions, counted |-> FALSE,
     countRefreshes |-> FALSE]

SessionIn == [SpecIn EXCEPT !.emails = ActiveEmails, !.codes = {}]

AttemptsIn ==
    [SpecIn EXCEPT !.emails = {"a@x.com"}, !.codes = {WrongCode}, !.counted = TRUE]

StoreIn == [SpecIn EXCEPT !.emails = {"a@x.com"}, !.codes = {WrongCode}]

\* The server started with NODE_ENV=development.
InitDevelopment == Init /\ nodeEnv = "development"

SendOTP(w, in) ==
    \/ SendOTPStart(w, in.emails)
    \/ SendOTPGetUser(w)
    \/ SendOTPClean(w)
    \/ SendOTPCreate(w, in.maxOtps)
    \/ SendOTPMail(w)

VerifyOTP(w, in) ==
    \/ VerifyOTPStart(w, in.emails, in.codes, in.types)
    \/ VerifyOTPGetUser(w)
    \/ VerifyOTPGetOTP(w)
    \/ VerifyOTPIncrement(w, in.counted)
    \/ VerifyOTPMark(w)
    \/ VerifyOTPLastLogin(w)
    \/ VerifyOTPSession(w, in.maxSessions, in.refreshTtls)

RefreshToken(w, in) ==
    \/ RefreshTokenStart(w, in.forged)
    \/ RefreshTokenGetSession(w)
    \/ RefreshTokenTouch(w)
    \/ RefreshTokenGetUser(w, in.countRefreshes)

Logout(w, in) ==
    \/ LogoutStart(w, in.forged)
    \/ LogoutDeactivate(w)

OptionalAuth(w, forged) ==
    \/ OptionalAuthStart(w, forged)
    \/ OptionalAuthGetUser(w)
    \/ OptionalAuthNext(w)

Me(w, forged) ==
    \/ MeStart(w, forged)
    \/ MeQuery(w)

LogoutAllDevices(w) ==
    \/ LogoutAllStart(w)
    \/ VerifyTokenGetUser(w)
    \/ LogoutAllQuery(w)

Next ==
    \/ SendOTP("w1", SpecIn)
    \/ VerifyOTP("w1", SpecIn)
    \/ Tick({OTP_EXPIRY_MINUTES, SESSION_TTL}, MaxTicks)

\* The OTP protocols: request a code, redeem a code.
Spec == Init /\ [][Next]_vars

NextSession ==
    \/ SendOTP("w1", SessionIn)
    \/ VerifyOTP("w1", SessionIn)
    \/ RefreshToken("w1", SessionIn)
    \/ Logout("w1", SessionIn)
    \/ LogoutAllDevices("w1")
    \/ Tick({SESSION_TTL}, MaxSessionTicks)

\* The session protocols: login, refresh, logout, logout from all devices.
SpecSession == Init /\ [][NextSession]_vars

NextAttempts ==
    \/ SendOTP("w1", AttemptsIn)
    \/ VerifyOTP("w1", AttemptsIn)
    \/ Tick({OTP_EXPIRY_MINUTES}, MaxTicks)

\* Redemption attempts on the challenges of one account, counted.
SpecAttempts == Init /\ [][NextAttempts]_vars

\* otp_verifications rows as the table may hold them: any attempt count
\* up to the limit, verified or not.
StoredRows(id) ==
    {[id |-> id, email |-> "a@x.com", otp_code |-> GenerateSecureOTP(b),
      otp_type |-> "login", expires_at |-> OTP_EXPIRY_MINUTES, is_verified |-> v,
      attempts |-> a, max_attempts |-> MAX_OTP_ATTEMPTS, created_at |-> 0] :
        b \in RandomBuffers, v \in BOOLEAN, a \in 0..MAX_OTP_ATTEMPTS}

InitStore ==
    /\ now = 0
    /\ ticks = 0
    /\ users = InitUsers
    /\ \E n \in 0..MaxOtps :
         /\ nextOtpId = n + 1
         /\ \E f \in [1..n -> UNION {StoredRows(i) : i \in 1..n}] :
              /\ \A i \in 1..n : f[i].id = i
              /\ otps = {f[i] : i \in 1..n}
    /\ sessions = <<>>
    /\ pc = [w \in Workers |-> "idle"]
    /\ req = [w \in Workers |-> Blank]
    /\ res = Blank
    /\ emailTransporter = NULL
    /\ nodeEnv = "production"
    /\ failedRedeems = [i \in 1..MaxOtps |-> 0]
    /\ refreshes = [i \in 1..MaxLogins |-> 0]
    /\ auditLogs = {}
    /\ hits = [ip \in Ips |-> 0]
    /\ failedAttempts = [ip \in Ips |-> 0]
    /\ otpLengthEnv = 0
    /\ InitProcess

NextStore ==
    \/ VerifyOTP("w1", StoreIn)
    \/ Tick({OTP_EXPIRY_MINUTES}, MaxTicks)

\* getValidOTP and the redemption applied to any stored table.
SpecStore == InitStore /\ [][NextStore]_vars

IssueIn ==
    [SpecIn EXCEPT !.emails = {"a@x.com"}, !.codes = {}, !.maxOtps = MaxIssues]

NextIssue ==
    \/ SendOTP("w1", IssueIn)
    \/ SendOTP("w2", IssueIn)
    \/ VerifyOTP("w1", IssueIn)
    \/ Tick({OTP_EXPIRY_MINUTES}, MaxTicks)

\* Two sendOTP requests for one account in flight at the same time, and
\* the redemption of their codes.
SpecIssue == InitDevelopment /\ [][NextIssue]_vars

\* The stored challenges belong to one account; the other account requests
\* new codes.
LifecycleIssueIn == [SpecIn EXCEPT !.emails = {"B@X.COM"}, !.maxOtps = MaxIssues]

LifecycleRedeemIn == [SpecIn EXCEPT !.emails = {"a@x.com"}, !.codes = {}]

NextLifecycle ==
    \/ SendOTP("w1", LifecycleIssueIn)
    \/ VerifyOTP("w1", LifecycleRedeemIn)
    \/ Tick({OTP_EXPIRY_MINUTES, 2 * OTP_EXPIRY_MINUTES}, MaxTicks)

\* Issue (with its cleanup) and redemption applied to any stored table, up
\* to and past the expiry of the stored challenges.
SpecLifecycle == InitStore /\ [][NextLifecycle]_vars

\* Request bodies of verify-otp that name either purpose the route
\* accepts, and the master code.
PurposeIn ==
    [SpecIn EXCEPT !.emails = {"a@x.com"}, !.codes = {MasterCode},
                   !.types = {"login", "registration"}]

NextPurpose ==
    \/ SendOTP("w1", PurposeIn)
    \/ VerifyOTP("w1", PurposeIn)
    \/ Tick({OTP_EXPIRY_MINUTES}, MaxTicks)

\* Redemption requests that name a purpose, and the master code.
SpecPurpose == Init /\ [][NextPurpose]_vars

NextFaults ==
    \/ SendOTP("w1", StoreIn)
    \/ SendOTPCleanFails("w1")
    \/ VerifyOTP("w1", StoreIn)
    \/ Tick({OTP_EXPIRY_MINUTES}, MaxTicks)

\* The OTP protocols of one account when the cleanup statement may fail.
SpecFaults == Init /\ [][NextFaults]_vars

\* A refresh token lifetime configured longer than the seven days of the
\* session row.
LONG_REFRESH_TOKEN_TTL == 2 * REFRESH_TOKEN_TTL

RefreshIn ==
    [SpecIn EXCEPT !.emails = {"a@x.com"}, !.codes = {}, !.forged = {},
                   !.countRefreshes = TRUE]

NextRefresh ==
    \/ SendOTP("w1", RefreshIn)
    \/ VerifyOTP("w1", RefreshIn)
    \/ RefreshToken("w1", RefreshIn)
    \/ Logout("w1", RefreshIn)
    \/ Tick({SESSION_TTL}, MaxSessionTicks)

\* The sessions of one account: refreshed, logged out and expiring.
SpecRefresh == InitDevelopment /\ [][NextRefresh]_vars

ExpiryIn ==
    [SpecIn EXCEPT !.emails = {"a@x.com"}, !.codes = {},
                   !.refreshTtls = {REFRESH_TOKEN_TTL, LONG_REFRESH_TOKEN_TTL}]

NextExpiry ==
    \/ SendOTP("w1", ExpiryIn)
    \/ VerifyOTP("w1", ExpiryIn)
    \/ RefreshToken("w1", ExpiryIn)
    \/ Tick({SESSION_TTL}, MaxSessionTicks)

\* Sessions whose refresh token outlives the session row.
SpecExpiry == InitDevelopment /\ [][NextExpiry]_vars

LogoutIn ==
    [SpecIn EXCEPT !.emails = {"a@x.com"}, !.codes = {},
                   !.refreshTtls = {REFRESH_TOKEN_TTL, LONG_REFRESH_TOKEN_TTL},
                   !.maxOtps = MaxLogins, !.maxSessions = MaxLogins]

NextLogout ==
    \/ SendOTP("w1", LogoutIn)
    \/ VerifyOTP("w1", LogoutIn)
    \/ Logout("w1", LogoutIn)

\* Several sessions of one account with different refresh tokens, and
\* their logout.
SpecLogout == InitDevelopment /\ [][NextLogout]_vars

StatusIn == [SpecIn EXCEPT !.emails = {"B@X.COM"}, !.codes = {}, !.forged = {}]

NextUserStatus ==
    \/ SendOTP("w1", StatusIn)
    \/ VerifyOTP("w1", StatusIn)
    \/ RefreshToken("w1", StatusIn)
    \/ LogoutAllDevices("w1")
    \/ AdminUpdateUserStatus({"u2"})
    \/ AdminDeleteUser({"u2"})

\* The sessions of an account that the admin deactivates, reactivates
\* and soft-deletes.
SpecUserStatus == InitDevelopment /\ [][NextUserStatus]_vars

NextAudit ==
    \/ AdminCreateUser(CreateBodies)
    \/ AdminUpdateUserStatus({"u2", "u9"})
    \/ AdminDeleteUser({"u2", "u9"})

\* The admin account creates, deactivates and deletes other users, with an
\* audit log that may fail to be written.
SpecAudit == InitDevelopment /\ [][NextAudit]_vars

NextSelf ==
    \/ AdminUpdateUserStatus(UserIdInputs)
    \/ AdminDeleteUser(UserIdInputs)

\* The admin account changes the status of any account, its own included.
SpecSelf == InitDevelopment /\ [][NextSelf]_vars

NextOptional ==
    \/ SendOTP("w1", StatusIn)
    \/ VerifyOTP("w1", StatusIn)
    \/ OptionalAuth("w1", {ForgedAccessToken})
    \/ AdminUpdateUserStatus({"u2"})
    \/ Tick({ACCESS_TOKEN_TTL}, MaxTicks)

\* Requests to a route behind optionalAuth: without a token, with the
\* access token of a login (current, expired, or of an account deactivated
\* since), and with a forged token.
SpecOptional == InitDevelopment /\ [][NextOptional]_vars

NextMe ==
    \/ SendOTP("w1", SessionIn)
    \/ VerifyOTP("w1", SessionIn)
    \/ Me("w1", {ForgedAccessToken})
    \/ Tick({ACCESS_TOKEN_TTL}, MaxTicks)

\* Requests to GET /auth/me with the access tokens of the logins so far.
SpecMe == InitDevelopment /\ [][NextMe]_vars

NextRateLimit ==
    \/ AuthRateLimit(Ips, RouteStatuses)
    \/ RateLimitWindowEnds(MaxTicks)

\* Requests to the rate-limited routes from two addresses, over the
\* windows of the limiter.
SpecRateLimit == InitDevelopment /\ [][NextRateLimit]_vars

RaceIn ==
    [SpecIn EXCEPT !.emails = {"a@x.com"}, !.codes = {}, !.maxSessions = MaxLogins]

NextRace ==
    \/ VerifyOTP("w1", RaceIn)
    \/ VerifyOTP("w2", RaceIn)

\* Two verifyOTP requests for one account in flight at the same time, on
\* any stored table.  (No challenge is issued meanwhile, so that no row is
\* deleted by the cleanup of sendOTP.)
SpecRace == InitStore /\ [][NextRace]_vars

ReplayIn ==
    [SpecIn EXCEPT !.emails = {"a@x.com"}, !.codes = {}, !.maxOtps = MaxIssues,
                   !.maxSessions = MaxLogins]

NextReplay ==
    \/ SendOTP("w1", ReplayIn)
    \/ VerifyOTP("w1", ReplayIn)

\* One client of one account, one request at a time: codes are issued
\* (the generator may draw the same code again) and redeemed.
SpecReplay == InitDevelopment /\ [][NextReplay]_vars

NextRedeemFaults ==
    \/ SendOTP("w1", StoreIn)
    \/ VerifyOTP("w1", StoreIn)
    \/ VerifyOTPLastLoginFails("w1")
    \/ VerifyOTPSessionFails("w1")

\* The OTP protocols of one account when the statements of verifyOTP that
\* follow the challenge update may fail.
SpecRedeemFaults == InitDevelopment /\ [][NextRedeemFaults]_vars

NextTouch ==
    \/ SendOTP("w1", StatusIn)
    \/ VerifyOTP("w1", StatusIn)
    \/ RefreshToken("w1", StatusIn)
    \/ AdminUpdateUserStatus({"u2"})
    \/ Tick({ACCESS_TOKEN_TTL}, MaxTicks)

\* Refreshes on the session of an account that the admin deactivates and
\* reactivates, while the clock moves within the lifetime of the session.
SpecTouch == InitDevelopment /\ [][NextTouch]_vars


\* The state in which verifyOTP has just answered the first login of
\* b@x.com: the challenge is verified, last_login is set and the session
\* row exists.
InitLoggedIn ==
    LET code == GenerateSecureOTP(CHOOSE b \in RandomBuffers : TRUE)
        user == [id |-> "u2", email |-> "b@x.com", is_active |-> TRUE,
                 role_name |-> "user", last_login |-> NULL_TIMESTAMP]
        accessToken ==
            [userId |-> "u2", email |-> "b@x.com", role |-> "user", iat |-> 0,
             exp |-> ACCESS_TOKEN_TTL, key |-> "JWT_ACCESS_SECRET"]
        refreshToken ==
            [userId |-> "u2", email |-> "b@x.com", iat |-> 0,
             exp |-> REFRESH_TOKEN_TTL, key |-> "JWT_REFRESH_SECRET"]
    IN
    /\ now = 0
    /\ ticks = 0
    /\ users = [InitUsers EXCEPT !["u2"].last_login = 0]
    /\ otps = {[id |-> 1, email |-> "b@x.com", otp_code |-> code,
                otp_type |-> "login", expires_at |-> OTP_EXPIRY_MINUTES,
                is_verified |-> TRUE, attempts |-> 0,
                max_attempts |-> MAX_OTP_ATTEMPTS, created_at |-> 0]}
    /\ nextOtpId = 2
    /\ sessions = <<[user_id |-> "u2", refresh_token |-> refreshToken,
                     expires_at |-> SESSION_TTL, is_active |-> TRUE,
                     created_at |-> 0, last_used |-> 0]>>
    /\ pc = [w \in Workers |-> "idle"]
    /\ req = [w \in Workers |-> Blank]
    /\ res = [Blank EXCEPT !.op = "verifyOTP", !.email = "b@x.com",
                           !.otp = code, !.type = "login", !.user = user,
                           !.row = 1, !.status = 200,
                           !.message = "Login successful",
                           !.access = accessToken, !.refresh = refreshToken]
    /\ emailTransporter = "fallback"
    /\ nodeEnv = "development"
    /\ failedRedeems = [i \in 1..MaxOtps |-> 0]
    /\ refreshes = [i \in 1..MaxLogins |-> 0]
    /\ auditLogs = {}
    /\ hits = [ip \in Ips |-> 0]
    /\ failedAttempts = [ip \in Ips |-> 0]
    /\ otpLengthEnv = 0
    /\ InitProcess

NextReactivate ==
    \/ RefreshToken("w1", StatusIn)
    \/ LogoutAllDevices("w1")
    \/ AdminUpdateUserStatus({"u2"})
    \/ AdminDeleteUser({"u2"})
    \/ Tick({ACCESS_TOKEN_TTL}, MaxTicks)

\* After a login: refreshes and logouts on the session while the admin
\* deactivates, reactivates and soft-deletes its user and the clock moves
\* within the lifetime of the session.
SpecReactivate == InitLoggedIn /\ [][NextReactivate]_vars

\* Two admins, each logged in: a@x.com and b@x.com hold the admin role
\* and one session each.
InitAdmins ==
    LET code == GenerateSecureOTP(CHOOSE b \in RandomBuffers : TRUE)
        session(u, email) ==
            [user_id |-> u,
             refresh_token |-> [userId |-> u, email |-> email, iat |-> 0,
                                exp |-> REFRESH_TOKEN_TTL,
                                key |-> "JWT_REFRESH_SECRET"],
             expires_at |-> SESSION_TTL, is_active |-> TRUE,
             created_at |-> 0, last_used |-> 0]
    IN
    /\ now = 0
    /\ ticks = 0
    /\ users = [InitUsers EXCEPT !["u1"].last_login = 0,
                                 !["u2"].last_login = 0,
                                 !["u2"].role_name = "admin"]
    /\ otps = {[id |-> 2, email |-> "b@x.com", otp_code |-> code,
                otp_type |-> "login", expires_at |-> OTP_EXPIRY_MINUTES,
                is_verified |-> TRUE, attempts |-> 0,
                max_attempts |-> MAX_OTP_ATTEMPTS, created_at |-> 0]}
    /\ nextOtpId = 3
    /\ sessions = <<session("u1", "a@x.com"), session("u2", "b@x.com")>>
    /\ pc = [w \in Workers |-> "idle"]
    /\ req = [w \in Workers |-> Blank]
    /\ res = Blank
    /\ emailTransporter = "fallback"
    /\ nodeEnv = "development"
    /\ failedRedeems = [i \in 1..MaxOtps |-> 0]
    /\ refreshes = [i \in 1..MaxLogins |-> 0]
    /\ auditLogs = {}
    /\ hits = [ip \in Ips |-> 0]
    /\ failedAttempts = [ip \in Ips |-> 0]
    /\ otpLengthEnv = 0
    /\ InitProcess

NextDeleted ==
    \/ AdminRequest("w1", {"u1"}, {"u2"})
    \/ AdminRequest("w2", {"u1"}, {"u2"})
    \/ AdminCreateUser(CreateBodies)
    \/ RestoreUserStatement({"u2"})

\* One admin's status changes and deletions of an account in flight at the
\* same time, with the creation of accounts and the restore statement.
SpecDeleted == InitAdmins /\ [][NextDeleted]_vars

NextAdmins ==
    \/ AdminRequest("w1", {"u1"}, {"u2"})
    \/ AdminRequest("w2", {"u2"}, {"u1"})

\* Two admins whose status changes and deletions of each other are in
\* flight at the same time.
SpecAdmins == InitAdmins /\ [][NextAdmins]_vars

\* Values of OTP_LENGTH an operator may configure (0: not set).
OtpLengths == {0, 4, 6, 8}

InitOtpLength ==
    /\ InitServer
    /\ nodeEnv = "development"
    /\ otpLengthEnv \in OtpLengths

LengthIn == [SpecIn EXCEPT !.emails = {"a@x.com"}, !.codes = {WrongCode}]

NextOtpLength ==
    \/ SendOTP("w1", LengthIn)
    \/ VerifyOTP("w1", LengthIn)

\* Issue and redemption on servers configured with different values of
\* OTP_LENGTH.
SpecOtpLength == InitOtpLength /\ [][NextOtpLength]_vars

\* A request on a connection of the HTTP server, which serves until it
\* has closed.
Serve(w, in) ==
    /\ Running
    /\ proc.server # "closed"
    /\ SendOTP(w, in)

NextShutdown ==
    \/ Serve("w1", StoreIn)
    \/ GracefulShutdown(MaxSignals)
    \/ ServerCloses
    \/ CloseCallback
    \/ PoolEndSettles
    \/ ForcedShutdown

\* The shutdown of the server on one or more signals while it serves a
\* client.  The timers of
\* setTimeout fire; when the connections of the HTTP server end is up to
\* its clients.
SpecShutdown ==
    Init /\ [][NextShutdown]_vars /\ WF_vars(ForcedShutdown)

\* A cold serverless instance: config/database.js and api/index.js have
\* just been loaded.
InitCold ==
    /\ InitTables
    /\ nodeEnv = "production"
    /\ otpLengthEnv = 0
    /\ pool = 0
    /\ pools = <<>>
    /\ dbConnected = FALSE
    /\ proc = [server |-> "listening", callbacks |-> 0, timers |-> 0,
               signals |-> 0, exitCode |-> RUNNING]
    /\ ends = <<>>

NextPool ==
    \/ Handler("w1", MaxPools)
    \/ Handler("w2", MaxPools)
    \/ GetPoolCall("w1")
    \/ CloseDatabaseCall
    \/ PoolEndSettles

\* Two invocations of the serverless handler on a cold instance, with
\* calls of getPool and closeDatabase.
SpecPool == InitCold /\ [][NextPool]_vars
(***************************************************************************)
(* Outcomes, as the caller sees them                                       *)
(***************************************************************************)
InvalidOrExpiredOTP(r) == r.status = 400 /\ r.message = "Invalid or expired OTP"
SessionInvalid(r) == r.status = 401 /\ r.message = "Invalid or expired session"
UserNotFound(r) == r.status = 404 /\ r.code = "USER_NOT_FOUND"
UserInactive(r) == r.status = 403 /\ r.code = "USER_DEACTIVATED"

\* The response of a verifyOTP that went through the challenge lookup and
\* redeemed nothing.
RedeemRefused(r) ==
    /\ r.op = "verifyOTP"
    /\ r.user # NoUser
    /\ r.row = 0

\* The response of a verifyOTP that returned a token pair.
RedeemSucceeded(r) ==
    r.op = "verifyOTP" /\ r.status = 200 /\ r.refresh # NoToken

\* The challenges a request for (email, code) names.
Names(r, o) == o.email = r.email /\ o.otp_code = r.otp /\ o.otp_type = "login"

(***************************************************************************)
(* C1: an issue followed by a redeem with the issued code succeeds, and    *)
(* the redeemed challenge cannot be redeemed again: a later redeem that    *)
(* names only challenges already redeemed fails with InvalidOrExpiredOTP.  *)
(***************************************************************************)
C1_RedeemExactlyOnce ==
    /\ (res.op = "verifyOTP" /\ res.row # 0) => RedeemSucceeded(res)
    /\ RedeemSucceeded(res) =>
           \E o \in otps : o.id = res.row /\ Names(res, o) /\ o.is_verified
    /\ (/\ RedeemRefused(res)
        /\ \E o \in otps : Names(res, o) /\ o.is_verified) =>
           InvalidOrExpiredOTP(res)

(***************************************************************************)
(* C2: a redeem with a wrong code, for an e-mail that has an outstanding   *)
(* challenge, increments the attempt count of that challenge and fails     *)
(* with InvalidOrExpiredOTP.                                               *)
(***************************************************************************)
C2_WrongCodeBurnsAttempt ==
    [][\A o \in otps :
         (/\ pc["w1"] = "verify_increment"
          /\ pc'["w1"] = "idle"
          /\ o.email = req["w1"].email
          /\ o.otp_code # req["w1"].otp
          /\ Outstanding(o)) =>
            /\ InvalidOrExpiredOTP(res')
            /\ \E p \in otps' : p.id = o.id /\ p.attempts = o.attempts + 1]_vars

(***************************************************************************)
(* C3: after max_attempts failed redemptions for the e-mail of an          *)
(* outstanding challenge, a redeem with the correct, unexpired code fails: *)
(* no challenge is redeemed once that many redemptions failed on it.       *)
(***************************************************************************)
C3_ExhaustedAfterFailures ==
    RedeemSucceeded(res) => failedRedeems[res.row] < MAX_OTP_ATTEMPTS

(***************************************************************************)
(* C4: once attempts >= max_attempts on a challenge, no redeem redeems     *)
(* it, and a redeem that names only such challenges returns no tokens,     *)
(* also with the correct code before expiry.                               *)
(***************************************************************************)
C4_ExhaustedNeverRedeemed ==
    /\ [](RedeemSucceeded(res) =>
            \A o \in otps : o.id = res.row => o.attempts < o.max_attempts)
    /\ []((/\ res.op = "verifyOTP"
           /\ res.status # 0
           /\ \E o \in otps : Names(res, o)
           /\ \A o \in otps : Names(res, o) => o.attempts >= o.max_attempts) =>
              /\ res.status # 200
              /\ res.access = NoToken
              /\ res.refresh = NoToken)
    /\ [][\A o \in otps :
            (o.attempts >= o.max_attempts /\ ~o.is_verified) =>
               \A p \in otps' : p.id = o.id => ~p.is_verified]_vars

\* A redeem with the correct code of an unexpired, unverified challenge
\* whose attempts are used up has been refused.
C4_Witness ==
    /\ RedeemRefused(res)
    /\ res.status >= 400
    /\ \E o \in otps :
         /\ Names(res, o)
         /\ ~o.is_verified
         /\ o.expires_at > now
         /\ o.attempts >= o.max_attempts

(***************************************************************************)
(* C5: a redeem at or after the expires_at of the challenge fails with     *)
(* InvalidOrExpiredOTP even with the correct code, and issues no tokens    *)
(* and creates no session.                                                 *)
(***************************************************************************)
C5_ExpiredRedeemFails ==
    (/\ RedeemRefused(res)
     /\ \E o \in otps :
          Names(res, o) /\ ~o.is_verified /\ o.attempts < o.max_attempts
              /\ o.expires_at <= now) =>
        /\ InvalidOrExpiredOTP(res)
        /\ res.access = NoToken
        /\ res.refresh = NoToken

(***************************************************************************)
(* C6: after logout deactivated the session of a refresh token, every      *)
(* later refresh with that token fails with SessionInvalid although the    *)
(* signature and expiry of the token are valid; a refresh succeeds only    *)
(* with a session that the lookup found active.                            *)
(***************************************************************************)
SessionsOf(token) == {i \in DOMAIN sessions : sessions[i].refresh_token = token}

C6_RevokedRefreshFails ==
    /\ []((/\ res.op = "refreshToken"
           /\ res.status # 0
           /\ JwtVerify(res.token, "JWT_REFRESH_SECRET") = "ok"
           /\ \A i \in SessionsOf(res.token) : ~sessions[i].is_active) =>
              SessionInvalid(res))
    /\ []((res.op = "refreshToken" /\ res.status = 200) =>
              /\ res.row \in SessionsOf(res.token)
              /\ sessions[res.row].is_active)
    /\ [][\A i \in DOMAIN sessions :
            ~sessions[i].is_active => ~sessions'[i].is_active]_vars

\* A refresh with a correctly signed, unexpired token of a logged-out
\* session has been refused.
C6_Witness ==
    /\ res.op = "refreshToken"
    /\ SessionInvalid(res)
    /\ JwtVerify(res.token, "JWT_REFRESH_SECRET") = "ok"
    /\ SessionsOf(res.token) # {}
    /\ \A i \in SessionsOf(res.token) :
         ~sessions[i].is_active /\ sessions[i].expires_at > now

(***************************************************************************)
(* C7: logout from all devices succeeds and leaves no session of that      *)
(* user active (so none passes findActive).                                *)
(***************************************************************************)
C7_LogoutAllDeactivates ==
    (res.op = "logoutAllDevices" /\ res.user # NoUser) =>
        /\ res.status = 200
        /\ \A i \in DOMAIN sessions :
             sessions[i].user_id = res.user.id => ~sessions[i].is_active

(***************************************************************************)
(* C8: issue for an e-mail whose account exists but is deactivated fails   *)
(* with UserInactive, not with the UserNotFound of an unknown e-mail, and  *)
(* persists no challenge.                                                  *)
(***************************************************************************)
C8_DeactivatedIsUserInactive ==
    /\ (/\ res.op = "sendOTP"
        /\ \E u \in DOMAIN users : users[u].email = res.email /\ ~users[u].is_active) =>
           UserInactive(res) /\ ~UserNotFound(res)
    /\ \A o \in otps : \E u \in DOMAIN users :
           users[u].email = o.email /\ users[u].is_active

(***************************************************************************)
(* C9 (as stated): when the challenge is persisted and the delivery then   *)
(* fails, issue still reports success.                                     *)
(***************************************************************************)
DeliveryFailed(r) == r.op = "sendOTP" /\ r.row # 0 /\ r.delivered = FALSE

C9_FailedDeliveryReportsSuccess ==
    DeliveryFailed(res) => res.status = 200

(***************************************************************************)
(* C9 (amended): when the challenge is persisted and the delivery then     *)
(* fails, issue reports success exactly when NODE_ENV is development;      *)
(* otherwise it answers 500 "Failed to send OTP"; in both cases the        *)
(* challenge stays stored.                                                 *)
(***************************************************************************)
C9_FailedDeliveryByEnv ==
    DeliveryFailed(res) =>
        /\ \E o \in otps : o.id = res.row
        /\ IF nodeEnv = "development"
           THEN res.status = 200
           ELSE res.status = 500 /\ res.message = "Failed to send OTP. Please try again."

C9_Witness ==
    /\ DeliveryFailed(res)
    /\ res.status = 500
    /\ \E o \in otps : o.id = res.row /\ o.email = res.email

(***************************************************************************)
(* C10: the challenge is persisted before the e-mail is dispatched, and    *)
(* the dispatch, failed or not, leaves the stored challenge as it is: it   *)
(* stays redeemable until it is verified, expired or exhausted.            *)
(***************************************************************************)
C10_PersistedBeforeDispatch ==
    /\ [](pc["w1"] = "send_mail" =>
            \E o \in otps :
               /\ o.id = req["w1"].row
               /\ o.email = req["w1"].email
               /\ o.otp_code = req["w1"].otp)
    /\ []((res.op = "sendOTP" /\ res.row # 0) =>
            \E o \in otps :
               /\ o.id = res.row
               /\ Names(res, o)
               /\ ~o.is_verified
               /\ o.attempts < o.max_attempts
               /\ (o.expires_at > now => o \in GetValidOTP(res.email, res.otp, "login")))
    /\ [][pc["w1"] = "send_mail" => otps' = otps]_vars
    /\ [][\A o \in otps :
            Outstanding(o) =>
               \/ o \in otps'
               \/ [o EXCEPT !.is_verified = TRUE] \in otps']_vars

\* The delivery failed and the code just issued is still redeemable.
C10_Witness ==
    /\ DeliveryFailed(res)
    /\ \E o \in GetValidOTP(res.email, res.otp, "login") : o.id = res.row

(***************************************************************************)
(* C11: two sendOTP calls for the same (email, purpose), concurrent or     *)
(* back to back, both persist their challenge (the insert of one leaves    *)
(* the rows of the other, and nothing removes an outstanding challenge);   *)
(* a redeem that names an outstanding challenge, the most recent one       *)
(* included, goes on to redeem the newest such challenge and succeeds;     *)
(* and a redeem with an older code redeems only a challenge that is itself *)
(* unexpired, unverified and below max_attempts.                           *)
(***************************************************************************)
Newest(o, r) ==
    \A p \in otps : (Names(r, p) /\ Outstanding(p)) => p.created_at <= o.created_at

C11_ConcurrentIssuesPersist ==
    /\ [][\A w \in Workers :
            (pc[w] = "send_create" /\ pc'[w] = "send_mail") =>
               /\ otps \subseteq otps'
               /\ \E o \in otps' \ otps :
                     /\ o.id = req'[w].row
                     /\ Names(req'[w], o)
                     /\ o \in GetValidOTP(o.email, o.otp_code, "login")']_vars
    /\ [][\A o \in otps :
            Outstanding(o) =>
               \/ o \in otps'
               \/ [o EXCEPT !.is_verified = TRUE] \in otps']_vars
    /\ [][(/\ pc["w1"] = "verify_getOTP"
           /\ pc'["w1"] # "verify_getOTP"
           /\ \E o \in otps : Names(req["w1"], o) /\ Outstanding(o)) =>
              /\ pc'["w1"] = "verify_mark"
              /\ \E o \in otps :
                    /\ o.id = req'["w1"].row
                    /\ Names(req["w1"], o)
                    /\ Outstanding(o)
                    /\ Newest(o, req["w1"])]_vars
    /\ [][(pc["w1"] = "verify_getOTP" /\ pc'["w1"] = "verify_mark") =>
              \E o \in otps :
                 /\ o.id = req'["w1"].row
                 /\ Names(req["w1"], o)
                 /\ Outstanding(o)]_vars
    /\ []((res.op = "verifyOTP" /\ res.row # 0) => RedeemSucceeded(res))

\* A second sendOTP stored its challenge while the first was still
\* dispatching its mail, and the code issued last has been redeemed.
C11_Witness ==
    /\ pc["w2"] = "send_mail"
    /\ req["w2"].row = 1
    /\ RedeemSucceeded(res)
    /\ res.row = 2
    /\ res.email = req["w2"].email
    /\ \E o \in otps : o.id = 1 /\ Outstanding(o)

(***************************************************************************)
(* C12: no challenge transition reverses: the verified flag of a stored    *)
(* challenge never goes from true back to false, its attempt count never   *)
(* decreases, its expiry and attempt limit are never moved, removed rows   *)
(* do not come back, and a challenge that is verified, expired or          *)
(* exhausted is never redeemable again.                                    *)
(***************************************************************************)
C12_NoTransitionReverses ==
    /\ [][\A o \in otps : \A p \in otps' :
            p.id = o.id =>
               /\ o.is_verified => p.is_verified
               /\ p.attempts >= o.attempts
               /\ p.expires_at = o.expires_at
               /\ p.max_attempts = o.max_attempts]_vars
    /\ [][\A o \in otps : \A p \in otps' :
            (p.id = o.id /\ ~Outstanding(o)) =>
               ~(/\ p.is_verified = FALSE
                 /\ p.expires_at > now'
                 /\ p.attempts < p.max_attempts)]_vars
    /\ [][/\ now' >= now
          /\ \A p \in otps' : (\E o \in otps : o.id = p.id) \/ p.id >= nextOtpId]_vars

\* A stored challenge with failed attempts has been redeemed and then
\* named by one more redeem, which was refused; it is still verified and
\* its attempts are as they were.
C12_Witness ==
    /\ RedeemRefused(res)
    /\ res.status >= 400
    /\ sessions # <<>>
    /\ \A o \in otps : o.email = res.email => o.is_verified /\ o.attempts > 0
    /\ \E o \in otps : Names(res, o)

(***************************************************************************)
(* C15 (as stated): the cleanup run by issue deletes exactly the           *)
(* challenges that are expired (expires_at at or before now, the moment    *)
(* from which redeem refuses them) or already verified.                    *)
(***************************************************************************)
CleanupStep == pc["w1"] = "send_clean" /\ pc'["w1"] = "send_create"

C15_CleanupDeletesExactlyStale ==
    [][CleanupStep =>
         otps' = {o \in otps : ~(o.is_verified \/ o.expires_at <= now)}]_vars

(***************************************************************************)
(* C15 (amended): the cleanup run by issue deletes exactly the challenges  *)
(* whose expires_at is strictly before now or that are already verified;   *)
(* a challenge at the very instant of its expiry is kept although redeem   *)
(* refuses it.  A challenge that is unverified and not yet expired is      *)
(* never deleted by cleanup, whatever e-mail it belongs to and whatever    *)
(* its attempt count.                                                      *)
(***************************************************************************)
C15_CleanupDeletesPastOrVerified ==
    [][CleanupStep =>
         /\ otps' \subseteq otps
         /\ \A o \in otps :
               o \notin otps' <=> (o.is_verified \/ o.expires_at < now)
         /\ \A o \in otps :
               (~o.is_verified /\ o.expires_at > now) => o \in otps']_vars

\* The cleanup of an issue for one account has run and kept a challenge
\* of another account that is unverified and at the instant of its expiry.
C15_Witness ==
    /\ pc["w1"] = "send_create"
    /\ \E o \in otps :
         /\ o.email # req["w1"].email
         /\ ~o.is_verified
         /\ o.expires_at = now

(***************************************************************************)
(* C13: redeem looks the challenge up by (email, code, purpose): a         *)
(* verifyOTP request that names purpose p redeems only a challenge issued  *)
(* for purpose p, never one issued for the other purpose.                  *)
(***************************************************************************)
C13_RedeemMatchesPurpose ==
    /\ pc["w1"] \in {"verify_mark", "verify_lastLogin", "verify_session"} =>
           \A o \in otps : o.id = req["w1"].row => o.otp_type = req["w1"].type
    /\ RedeemSucceeded(res) =>
           \A o \in otps : o.id = res.row => o.otp_type = res.type

(***************************************************************************)
(* C14: the master code only bypasses format validation: a verifyOTP with  *)
(* the master code succeeds only by redeeming a stored challenge of that   *)
(* e-mail with exactly that code (unverified, unexpired, below             *)
(* max_attempts); with no such challenge it fails with                     *)
(* InvalidOrExpiredOTP and issues no tokens.                               *)
(***************************************************************************)
C14_MasterCodeNeedsChallenge ==
    (res.op = "verifyOTP" /\ IsMasterOTP(res.otp) /\ res.user # NoUser) =>
        /\ RedeemSucceeded(res) =>
               \E o \in otps : o.id = res.row /\ Names(res, o)
        /\ ~(\E o \in otps : Names(res, o)) =>
               /\ InvalidOrExpiredOTP(res)
               /\ res.access = NoToken
               /\ res.refresh = NoToken

(***************************************************************************)
(* C16: cleanup is best-effort: when the cleanup of stale challenges       *)
(* fails, sendOTP still persists the new challenge and acknowledges the    *)
(* request.                                                                *)
(***************************************************************************)
\* The response of a sendOTP that found the account and stored nothing:
\* its cleanup statement failed.
CleanupFailed(r) == r.op = "sendOTP" /\ r.user # NoUser /\ r.row = 0

C16_CleanupBestEffort ==
    CleanupFailed(res) =>
        /\ res.status = 200
        /\ \E o \in otps : o.email = res.email /\ o.created_at = now

(***************************************************************************)
(* C17: a successful refresh returns a new access token and no refresh     *)
(* token; no step of the refresh handler changes the stored refresh token, *)
(* the active flag or expires_at of any session; and a refresh with a      *)
(* token whose signature and expiry are valid and whose session is active  *)
(* and unexpired succeeds, however often the token was used before.        *)
(***************************************************************************)
SessionHonoured(token) ==
    \E i \in SessionsOf(token) :
       sessions[i].is_active /\ sessions[i].expires_at > now

C17_RefreshDoesNotRotate ==
    /\ []((res.op = "refreshToken" /\ res.status = 200) =>
            /\ res.refresh = NoToken
            /\ res.access.key = "JWT_ACCESS_SECRET"
            /\ res.access.userId = res.token.userId
            /\ res.access.iat = now)
    /\ [][req["w1"].op = "refreshToken" =>
            /\ Len(sessions') = Len(sessions)
            /\ \A i \in DOMAIN sessions :
                  /\ sessions'[i].refresh_token = sessions[i].refresh_token
                  /\ sessions'[i].is_active = sessions[i].is_active
                  /\ sessions'[i].expires_at = sessions[i].expires_at
                  /\ sessions'[i].user_id = sessions[i].user_id]_vars
    /\ []((/\ res.op = "refreshToken"
           /\ res.status # 0
           /\ res.token # NoToken
           /\ JwtVerify(res.token, "JWT_REFRESH_SECRET") = "ok"
           /\ SessionHonoured(res.token)) =>
              res.status = 200)

\* The same refresh token has been answered with a new access token
\* MaxRefreshes times, and its session is still active with its token.
C17_Witness ==
    /\ res.op = "refreshToken"
    /\ res.status = 200
    /\ refreshes[res.row] = MaxRefreshes
    /\ sessions[res.row].refresh_token = res.token
    /\ sessions[res.row].is_active
    /\ sessions[res.row].expires_at = sessions[res.row].created_at + SESSION_TTL

(***************************************************************************)
(* C18: logout with a refresh token always answers the same success,       *)
(* whether the token matches an active session, an inactive one or none;   *)
(* afterwards no session with that token is active, sessions with other    *)
(* tokens are unchanged and no session row is deleted.                     *)
(***************************************************************************)
C18_LogoutIdempotent ==
    /\ []((res.op = "logout" /\ res.token # NoToken) =>
            /\ res.status = 200
            /\ res.message = "Logout successful"
            /\ \A i \in SessionsOf(res.token) : ~sessions[i].is_active)
    /\ [][(pc["w1"] = "logout_deactivate" /\ pc'["w1"] = "idle") =>
            /\ Len(sessions') = Len(sessions)
            /\ \A i \in DOMAIN sessions :
                  IF sessions[i].refresh_token = req["w1"].token
                  THEN sessions'[i] = [sessions[i] EXCEPT !.is_active = FALSE]
                  ELSE sessions'[i] = sessions[i]]_vars

\* A logout has closed the session of its token while a session of the
\* same user with another token is still active.
C18_Witness ==
    /\ res.op = "logout"
    /\ res.status = 200
    /\ SessionsOf(res.token) # {}
    /\ \E i \in DOMAIN sessions :
         /\ sessions[i].refresh_token # res.token
         /\ sessions[i].user_id = res.token.userId
         /\ sessions[i].is_active

(***************************************************************************)
(* C19: the session lookup of refresh returns only sessions with           *)
(* is_active = true and expires_at > now: a refresh whose session rows     *)
(* have all passed their expires_at fails with SessionInvalid although the *)
(* token's signature and own expiry are valid and the session was never    *)
(* deactivated.                                                            *)
(***************************************************************************)
C19_ExpiredSessionRefused ==
    /\ [][(/\ pc["w1"] = "refresh_getSession"
           /\ pc'["w1"] # "refresh_getSession"
           /\ ~SessionHonoured(req["w1"].token)) =>
              SessionInvalid(res')]_vars
    /\ [][(pc["w1"] = "refresh_getSession" /\ pc'["w1"] = "refresh_touch") =>
              /\ req'["w1"].row \in SessionsOf(req["w1"].token)
              /\ sessions[req'["w1"].row].is_active
              /\ sessions[req'["w1"].row].expires_at > now]_vars

\* A refresh with a correctly signed, unexpired token has been refused
\* because its session, never deactivated, is past its expires_at.
C19_Witness ==
    /\ res.op = "refreshToken"
    /\ SessionInvalid(res)
    /\ JwtVerify(res.token, "JWT_REFRESH_SECRET") = "ok"
    /\ SessionsOf(res.token) # {}
    /\ \A i \in SessionsOf(res.token) :
         sessions[i].is_active /\ sessions[i].expires_at <= now

(***************************************************************************)
(* C20: session validity requires an active user: while a user is          *)
(* deactivated or soft-deleted, no refresh with a refresh token of that    *)
(* user returns an access token, and no request carrying an access token   *)
(* of that user passes verifyToken.                                        *)
(***************************************************************************)
C20_InactiveUserHasNoSession ==
    /\ [](\A u \in DOMAIN users : users[u].deleted_at # NULL => ~users[u].is_active)
    /\ []((/\ res.op = "refreshToken"
           /\ res.status # 0
           /\ res.token # NoToken
           /\ ~users[res.token.userId].is_active) =>
              /\ res.status # 200
              /\ res.access = NoToken)
    /\ [][(/\ pc["w1"] = "verifyToken_getUser"
           /\ pc'["w1"] # "verifyToken_getUser"
           /\ ~users[req["w1"].token.userId].is_active) =>
              /\ pc'["w1"] = "idle"
              /\ res'.status = 401
              /\ res'.user = NoUser]_vars

\* A refresh whose token and session are valid has been refused because
\* the admin soft-deleted the user.
C20_Witness ==
    /\ res.op = "refreshToken"
    /\ res.status = 404
    /\ JwtVerify(res.token, "JWT_REFRESH_SECRET") = "ok"
    /\ SessionHonoured(res.token)
    /\ users[res.token.userId].deleted_at # NULL
    /\ ~users[res.token.userId].is_active

(***************************************************************************)
(* C21: a verifyOTP that returns a token pair has created a session bound  *)
(* to the returned refresh token and to the redeeming user: when a login   *)
(* response carries a refresh token, an active session row with that token *)
(* and that user id is stored, and a refresh with the token at that moment *)
(* passes every check of refreshToken (signature and expiry of the token,  *)
(* the session lookup, the user lookup).                                   *)
(***************************************************************************)
C21_LoginCreatesBoundSession ==
    RedeemSucceeded(res) =>
        /\ \E i \in DOMAIN sessions :
              /\ sessions[i].refresh_token = res.refresh
              /\ sessions[i].user_id = res.user.id
              /\ sessions[i].is_active
              /\ sessions[i].created_at = now
        /\ res.refresh.userId = res.user.id
        /\ JwtVerify(res.refresh, "JWT_REFRESH_SECRET") = "ok"
        /\ GetSessionByToken(res.refresh) # {}
        /\ GetUserById(res.refresh.userId) # {}

\* A login has just answered with a token pair, after the clock moved.
C21_Witness ==
    /\ RedeemSucceeded(res)
    /\ res.user.id = "u1"
    /\ now > 0
    /\ \E i \in DOMAIN sessions : sessions[i].refresh_token = res.refresh

(***************************************************************************)
(* C22: round trip of the tokens: the access token a login or a refresh    *)
(* answers with passes jwt.verify at that moment (right key, not expired), *)
(* and its claims userId, email and role are the id, e-mail and role of    *)
(* the user it was minted for; the refresh token of a login carries        *)
(* userId and email (with iat and exp) and no role.                        *)
(***************************************************************************)
C22_TokenRoundTrip ==
    /\ (res.status = 200 /\ res.access # NoToken) =>
           /\ JwtVerify(res.access, "JWT_ACCESS_SECRET") = "ok"
           /\ res.access.iat = now
           /\ res.access.exp = now + ACCESS_TOKEN_TTL
           /\ res.access.userId = res.user.id
           /\ res.access.email = users[res.user.id].email
           /\ res.access.role = users[res.user.id].role_name
    /\ RedeemSucceeded(res) =>
           /\ DOMAIN res.refresh = {"userId", "email", "iat", "exp", "key"}
           /\ res.refresh.userId = res.user.id
           /\ res.refresh.email = users[res.user.id].email
           /\ JwtVerify(res.refresh, "JWT_REFRESH_SECRET") = "ok"

\* A refresh has just answered with a new access token for the admin
\* account, minted later than the login of the session.
C22_Witness ==
    /\ res.op = "refreshToken"
    /\ res.status = 200
    /\ res.access.role = "admin"
    /\ res.access.iat > res.token.iat

\* Why the code of a request redeems nothing.
WrongCodeCase(r) == \A o \in otps : ~Names(r, o)
ExpiredCase(r) == \E o \in otps : Names(r, o) /\ o.expires_at <= now
ExhaustedCase(r) == \E o \in otps : Names(r, o) /\ o.attempts >= o.max_attempts
VerifiedCase(r) == \E o \in otps : Names(r, o) /\ o.is_verified

(***************************************************************************)
(* C23: redemption failures are non-specific: a verifyOTP that redeems     *)
(* nothing answers with one status, message and code, whether the code     *)
(* names no challenge of the account (wrong code), an expired challenge,   *)
(* a challenge whose attempts are used up, or a verified challenge.        *)
(***************************************************************************)
C23_RefusalsIndistinguishable ==
    (/\ RedeemRefused(res)
     /\ \/ WrongCodeCase(res)
        \/ ExpiredCase(res)
        \/ ExhaustedCase(res)
        \/ VerifiedCase(res)) =>
        /\ res.status = 500
        /\ res.message = "Failed to verify OTP. Please try again."
        /\ res.code = NULL
        /\ res.access = NoToken
        /\ res.refresh = NoToken

\* The code of a challenge that is neither expired nor verified, but whose
\* attempts are used up, has just been refused.
C23_Witness ==
    /\ RedeemRefused(res)
    /\ ExhaustedCase(res)
    /\ ~ExpiredCase(res)
    /\ ~VerifiedCase(res)

\* The responses of the user-management handlers.
AdminOps == {"createUser", "updateUserStatus", "deleteUser"}

(***************************************************************************)
(* C24: a failure of audit logging never fails the admin operation:        *)
(* whether or not logAdminAction writes its row, createUser,               *)
(* updateUserStatus and deleteUser never answer 500, a request that        *)
(* changed the users table is answered with the success response, and a    *)
(* success response means the change is in the table.                      *)
(***************************************************************************)
C24_AuditFailureHarmless ==
    [][(res'.op \in AdminOps /\ res'.status # 0) =>
          /\ res'.status # 500
          /\ users' # users => res'.status \in {200, 201}
          /\ (res'.op = "createUser" /\ res'.status = 201) =>
                /\ res'.user.id \in DOMAIN users' \ DOMAIN users
                /\ users'[res'.user.id].is_active
          /\ (res'.op = "deleteUser" /\ res'.status = 200) =>
                /\ users'[UuidOf(res'.user.id)].deleted_at # NULL
                /\ ~users'[UuidOf(res'.user.id)].is_active
          /\ (res'.op = "updateUserStatus" /\ res'.status = 200) =>
                \E body \in StatusBodies :
                   /\ "is_active" \in DOMAIN body
                   /\ users' = UpdateUserStatus(users, UuidOf(res'.user.id),
                                                body.is_active)]_vars

\* createUser and deleteUser have both answered with success, and neither
\* the creation nor the deletion is in the audit log.
C24_Witness ==
    /\ res.op = "deleteUser"
    /\ res.status = 200
    /\ users["u2"].deleted_at # NULL
    /\ "u4" \in DOMAIN users
    /\ \A a \in auditLogs : a.action \notin {"USER_DELETED", "USER_CREATED"}

C26_OptionalAuthNeverRejects ==
    (res.op = "optionalAuth" /\ res.status # 0) =>
        /\ res.status = 200
        /\ res.message = "next"
        /\ res.token = NoToken => res.user = NoUser

(***************************************************************************)
(* C27: GET /auth/me returns the current user's information for every      *)
(* valid, unexpired access token issued to a user who still exists, and    *)
(* answers 'User not found' only when the user of the token no longer      *)
(* exists.                                                                 *)
(***************************************************************************)
C27_MeReturnsCurrentUser ==
    (/\ res.op = "me"
     /\ res.status # 0
     /\ res.token # NoToken
     /\ JwtVerify(res.token, "JWT_ACCESS_SECRET") = "ok"
     /\ res.token.userId \in DOMAIN users) =>
        /\ res.status = 200
        /\ res.user.id = res.token.userId

(***************************************************************************)
(* C28: the authentication rate limit bounds failed attempts per IP: once  *)
(* an address has made the configured maximum of failing requests within   *)
(* the window, every further request from that address in the window is    *)
(* answered with the 429 'Too many authentication attempts' response.      *)
(***************************************************************************)
C28_RateLimitBoundsFailures ==
    [][(/\ res'.op = "authRateLimit"
        /\ failedAttempts[res'.ip] >= RATE_LIMIT_AUTH_MAX
        /\ now' = now) =>
           /\ res'.status = 429
           /\ res'.message =
                 "Too many authentication attempts. Please try again in 15 minutes."]_vars

(***************************************************************************)
(* C29: an admin can neither deactivate nor soft-delete their own account: *)
(* no updateUserStatus or deleteUser request whose id denotes the row of   *)
(* the acting admin changes that row, and the acting admin is active and   *)
(* not deleted after every admin operation they perform.                   *)
(***************************************************************************)
C29_AdminCannotRemoveSelf ==
    [][(/\ res'.op \in {"updateUserStatus", "deleteUser"}
        /\ res'.status # 0
        /\ UuidOf(res'.user.id) = AdminId) =>
           /\ users'[AdminId] = users[AdminId]
           /\ users'[AdminId].is_active
           /\ users'[AdminId].deleted_at = NULL]_vars

(***************************************************************************)
(* C30: under interleaved verifyOTP requests for the same e-mail and code, *)
(* at most one request redeems a given challenge: every login (a token     *)
(* pair, with the session created for it) has a verified challenge of its  *)
(* own, so one challenge never yields two sessions.                        *)
(***************************************************************************)
C30_ConcurrentRedeemOnce ==
    Len(sessions) <= Cardinality({o \in otps : o.is_verified})

(***************************************************************************)
(* C31: a code value is accepted at most once per e-mail between           *)
(* issuances.  Every sendOTP deletes the verified rows in its cleanup, so  *)
(* with one request at a time a verified row of (e-mail, code) in the      *)
(* table means that the code was redeemed and no sendOTP has run since:    *)
(* no login is answered for a code while another row of the same e-mail    *)
(* and code is verified.                                                   *)
(***************************************************************************)
C31_CodeAcceptedOncePerIssue ==
    RedeemSucceeded(res) =>
        ~\E o \in otps :
            /\ o.id # res.row
            /\ o.email = res.email
            /\ o.otp_code = res.otp
            /\ o.is_verified

(***************************************************************************)
(* C32: redeem is all-or-nothing: when a verifyOTP that found a valid      *)
(* challenge ends without returning a token pair (updating last-login or   *)
(* creating the session failed), the challenge is left unverified and      *)
(* still redeemable by a retry.                                            *)
(***************************************************************************)
C32_RedeemAllOrNothing ==
    (/\ res.op = "verifyOTP"
     /\ res.status \notin {0, 200}
     /\ res.row # 0) =>
        /\ \A o \in otps : o.id = res.row => ~o.is_verified
        /\ GetValidOTP(res.email, res.otp, "login") # {}

(***************************************************************************)
(* C33: a session's last_used is updated by a refresh if and only if that  *)
(* refresh succeeds: a refresh that has run updateSessionLastUsed on its   *)
(* session (and so moved last_used to the present) answers with a new      *)
(* access token, and a refresh that is refused has not changed the row.    *)
(***************************************************************************)
C33_TouchIffRefreshSucceeds ==
    [][(/\ pc["w1"] = "refresh_getUser"
        /\ pc'["w1"] = "idle"
        /\ sessions[req["w1"].row].last_used = now
        /\ sessions[req["w1"].row].created_at < now) =>
           /\ res'.status = 200
           /\ res'.access # NoToken]_vars

(***************************************************************************)
(* C34: deactivating or soft-deleting a user does not deactivate the       *)
(* user's sessions: no admin operation changes a session row; the session  *)
(* lookup of a refresh depends on the session alone; the refresh is        *)
(* refused with 'User not found' exactly while the user is inactive; and   *)
(* a logged reactivation leaves the user active, so that a refresh token   *)
(* issued before the deactivation is honoured again.                       *)
(***************************************************************************)
C34_UserStatusKeepsSessions ==
    /\ [][res'.op \in {"updateUserStatus", "deleteUser"} =>
             sessions' = sessions]_vars
    /\ [][(pc["w1"] = "refresh_getSession" /\ pc'["w1"] # "refresh_getSession") =>
             (pc'["w1"] = "refresh_touch" <=> SessionHonoured(req["w1"].token))]_vars
    /\ [][(pc["w1"] = "refresh_getUser" /\ pc'["w1"] = "idle") =>
             IF users[req["w1"].token.userId].is_active
             THEN res'.status = 200 /\ res'.access # NoToken
             ELSE res'.status = 404 /\ res'.access = NoToken]_vars
    /\ [][\A a \in auditLogs' \ auditLogs :
             a.action = "USER_ACTIVATED" =>
                users'[UuidOf(a.resource_id)].is_active]_vars

\* A refresh has been answered with an access token on a session that is
\* older than a deactivation of its user.
C34_Witness ==
    /\ res.op = "refreshToken"
    /\ res.status = 200
    /\ \E a \in auditLogs :
          /\ a.action = "USER_DEACTIVATED"
          /\ a.resource_id = res.token.userId
          /\ a.created_at > sessions[res.row].created_at

\* An updateUserStatus request takes a step while its target is
\* soft-deleted.
C35_OnDeleted(w) ==
    /\ pc[w] \in {"admin_getUser", "admin_write"}
    /\ pc'[w] # pc[w]
    /\ req[w].op = "updateUserStatus"
    /\ users[UuidOf(req[w].target)].deleted_at # NULL

(***************************************************************************)
(* C35: through createUser, updateUserStatus, deleteUser and restore, a    *)
(* user whose deleted_at is set is inactive, and an updateUserStatus       *)
(* request on a soft-deleted user leaves the users table as it is and is   *)
(* refused.                                                                *)
(***************************************************************************)
C35_DeletedIsInactive ==
    /\ [](\A u \in DOMAIN users : users[u].deleted_at # NULL => ~users[u].is_active)
    /\ [][\A w \in Workers :
             C35_OnDeleted(w) =>
                /\ users' = users
                /\ res'.status \in {400, 404}
                /\ res'.code \in {"USER_DELETED", "UPDATE_FAILED"}]_vars

\* An updateUserStatus request that passed the lookup of its target has
\* found the target soft-deleted at its UPDATE.
C35_Witness ==
    /\ res.op = "updateUserStatus"
    /\ res.code = "UPDATE_FAILED"
    /\ users[UuidOf(res.target)].deleted_at # NULL
    /\ ~users[UuidOf(res.target)].is_active

\* The admins that can still sign in and act.
ActiveAdmins ==
    {u \in DOMAIN users : /\ RoleOrDefault(users[u].role_name) = "admin"
                          /\ users[u].is_active
                          /\ users[u].deleted_at = NULL}

(***************************************************************************)
(* C36: after any interleaving of updateUserStatus and deleteUser requests *)
(* issued by admins, at least one active, non-deleted admin exists.        *)
(***************************************************************************)
C36_AnAdminRemains == ActiveAdmins # {}

\* otp_code VARCHAR(6).
OTP_CODE_COLUMN == 6

(***************************************************************************)
(* C37: for every configured OTP_LENGTH, each code that sendOTP stores     *)
(* passes isValidOTPFormat and fits the otp_code column.                   *)
(***************************************************************************)
C37_IssuedCodePassesFormat ==
    \A o \in otps :
       /\ IsValidOTPFormat(o.otp_code)
       /\ Len(o.otp_code) <= OTP_CODE_COLUMN

\* closeDatabase has been called: a pool is ending or has ended.
C38_PoolClosing == \E i \in DOMAIN pools : pools[i].state # "open"

(***************************************************************************)
(* C38: on a termination signal closeDatabase is called only after the     *)
(* HTTP server has closed; the process exits with code 0 exactly when the  *)
(* server has closed and the pool has been closed, and with code 1         *)
(* otherwise; and every shutdown that was started ends in an exit.         *)
(***************************************************************************)
C38_ShutdownInOrderAndExits ==
    /\ [](C38_PoolClosing => proc.server = "closed")
    /\ [](proc.exitCode = 0 =>
             /\ proc.server = "closed"
             /\ pool = 0
             /\ LivePools = {})
    /\ [][(pool # 0 /\ pool' = 0) => proc'.exitCode = 0]_vars
    /\ [](proc.exitCode \in {RUNNING, 0, 1})
    /\ (proc.signals > 0) ~> (proc.exitCode # RUNNING)

\* The orderly shutdown has ended: the server closed, then the pool, and
\* the process exited with code 0.
C38_Witness ==
    /\ proc.signals > 0
    /\ proc.server = "closed"
    /\ pools[1].state = "ended"
    /\ proc.exitCode = 0

(***************************************************************************)
(* C39: at most one connection pool exists at any time; a connectDatabase  *)
(* call that finds a pool returns it and creates none; and a pool is       *)
(* created only while pool is null, which it is at load and after          *)
(* closeDatabase has reset it, when every earlier pool has ended.          *)
(***************************************************************************)
C39_AtMostOnePool ==
    /\ [](Cardinality(LivePools) <= 1)
    /\ [](pool # 0 => LivePools = {pool})
    /\ [][Len(pools') > Len(pools) => (pool = 0 /\ LivePools = {})]_vars
    /\ [][(pool # 0 /\ res'.op = "handler" /\ pc' = pc) =>
             (pools' = pools /\ pool' = pool /\ res'.row = pool)]_vars

\* While the test connection of one invocation is pending, a second
\* invocation has been handed the same pool.
C39_Witness ==
    \E w \in Workers :
       /\ pc[w] = "connect_test"
       /\ res.op = "handler"
       /\ res.row = req[w].row
       /\ LivePools = {res.row}

\* No connectDatabase call has completed successfully and none is in
\* flight.
C40_NeverConnected ==
    /\ \A w \in Workers : pc[w] # "connect_test"
    /\ \A i \in DOMAIN pools : ~pools[i].tested

(***************************************************************************)
(* C40: getPool succeeds only after a connectDatabase call has completed   *)
(* successfully: while none has, and none is in flight, the module is in   *)
(* the not-connected state (pool is null), so that getPool throws and the  *)
(* next connectDatabase call tests the connection again.                   *)
(***************************************************************************)
C40_FailedConnectLeavesNotConnected ==
    C40_NeverConnected => (pool = 0 /\ GetPool = "Database not connected")

====
